---------------------------- MODULE Spec2Model ----------------------------
(***************************************************************************)
(* LKit: the typed scalar (lkit::value), the base functions, the variable  *)
(* and expression nodes and the parser that owns them.                     *)
(*                                                                         *)
(* A scalar is the record [tag, n, d]: tag is the value_type, and n/d is   *)
(* the payload as a normalised fraction (d = 1 for bool, int and time; a   *)
(* double is the fraction its decimal literal denotes).  A source text is  *)
(* a sequence of one-character strings, scanned character by character as  *)
(* parser::parseExpr does.  Nodes live in a heap indexed by address; a     *)
(* destroyed node stays in the heap with alive = FALSE so that a later use *)
(* of its address is visible.                                              *)
(***************************************************************************)
EXTENDS Integers, Sequences, FiniteSets, TLC

(***************************************************************************)
(* Bounds of the model.                                                    *)
(***************************************************************************)
\* the model's uint64_t payload is kept modulo 2^TimeBits
TimeBits == 12
\* number of calls made on one parser
MaxOps == 5
\* longest argument list drawn for a direct function application
MaxArgs == 3

TimeModulus == 2 ^ TimeBits

NULL == 0

\* F applied to the value v, which is computed once
With(v, F(_)) == CHOOSE y \in {F(x) : x \in {v}} : TRUE

(***************************************************************************)
(* Fractions: the payload arithmetic.                                      *)
(***************************************************************************)
Abs(a) == IF a < 0 THEN 0 - a ELSE a

Sign(a) == IF a < 0 THEN 0 - 1 ELSE IF a = 0 THEN 0 ELSE 1

RECURSIVE GCD(_, _)
GCD(a, b) == IF b = 0 THEN a ELSE GCD(b, a % b)

\* C++ integer division truncates toward zero
TDiv(a, b) == Sign(a) * Sign(b) * (Abs(a) \div Abs(b))

Frac(n, d) ==
    LET g == GCD(Abs(n), Abs(d))
        s == IF d < 0 THEN 0 - 1 ELSE 1
    IN  IF n = 0 THEN [n |-> 0, d |-> 1]
        ELSE [n |-> s * (n \div g), d |-> s * (d \div g)]

FAdd(x, y) == Frac(x.n * y.d + y.n * x.d, x.d * y.d)
FSub(x, y) == Frac(x.n * y.d - y.n * x.d, x.d * y.d)
FMul(x, y) == Frac(x.n * y.n, x.d * y.d)
FDiv(x, y) == Frac(x.n * y.d, x.d * y.n)
FLess(x, y) == x.n * y.d < y.n * x.d
\* (int)aDouble
FTrunc(x) == TDiv(x.n, x.d)

(***************************************************************************)
(* lkit::value: construction, assignment, coercion.                        *)
(***************************************************************************)
Tags == {"Undefined", "Bool", "Int", "Double", "Time"}

Undef == [tag |-> "Undefined", n |-> 0, d |-> 1]
MkBool(b) == [tag |-> "Bool", n |-> IF b THEN 1 ELSE 0, d |-> 1]
MkInt(i) == [tag |-> "Int", n |-> i, d |-> 1]
MkDouble(f) == [tag |-> "Double", n |-> f.n, d |-> f.d]
MkTime(t) == [tag |-> "Time", n |-> t % TimeModulus, d |-> 1]

Payload(v) == [n |-> v.n, d |-> v.d]

isUndefined(v) == v.tag = "Undefined"

\* value::operator=(const value &): the tag and the payload of that tag
ValueAssign(v) == [tag |-> v.tag, n |-> v.n, d |-> v.d]

evalAsBool_nl(v) == v.tag # "Undefined" /\ v.n # 0

evalAsInt_nl(v) ==
    CASE v.tag = "Undefined" -> 0
      [] v.tag = "Double" -> FTrunc(Payload(v))
      [] OTHER -> v.n

evalAsTime_nl(v) ==
    CASE v.tag = "Undefined" -> 0
      [] v.tag = "Double" -> FTrunc(Payload(v)) % TimeModulus
      [] OTHER -> v.n % TimeModulus

(***************************************************************************)
(* Compound assignment.  value::operator+=(const value &) switches on the  *)
(* source's tag and calls the raw overload, which switches on the target's *)
(* tag; each definition below folds the two switches into one.             *)
(***************************************************************************)
\* the result of the target's arithmetic stored under the target's tag
StoreNum(t, f) ==
    IF t.tag = "Bool" THEN MkBool(f.n # 0)
    ELSE IF t.tag = "Int" THEN MkInt(FTrunc(f))
    ELSE IF t.tag = "Double" THEN MkDouble(f)
    ELSE MkTime(FTrunc(f))

\* _intValue op= (int)aValue for a double source, the source as it is otherwise
IntSrc(t, s) ==
    IF t.tag = "Int" /\ s.tag = "Double"
    THEN [n |-> FTrunc(Payload(s)), d |-> 1]
    ELSE Payload(s)

value_plus_eq(t, s) ==
    IF s.tag = "Undefined" THEN t
    ELSE IF t.tag = "Undefined" THEN ValueAssign(s)
    ELSE IF t.tag = "Bool" /\ s.tag = "Bool" THEN MkBool(t.n # s.n)
    ELSE StoreNum(t, FAdd(Payload(t), IntSrc(t, s)))

value_minus_eq(t, s) ==
    IF s.tag = "Undefined" THEN t
    ELSE IF t.tag = "Undefined" THEN
        IF s.tag = "Bool" THEN MkBool(s.n = 0)
        ELSE IF s.tag = "Int" THEN MkInt(0 - s.n)
        ELSE IF s.tag = "Double" THEN MkDouble(Frac(0 - s.n, s.d))
        ELSE MkTime(0 - s.n)
    ELSE IF t.tag = "Bool" /\ s.tag = "Bool" THEN MkBool(t.n # s.n)
    ELSE StoreNum(t, FSub(Payload(t), IntSrc(t, s)))

value_times_eq(t, s) ==
    IF s.tag = "Undefined" THEN t
    ELSE IF t.tag = "Undefined" THEN t
    ELSE IF t.tag = "Bool" THEN MkBool(t.n # 0 /\ s.n # 0)
    ELSE StoreNum(t, FMul(Payload(t), IntSrc(t, s)))

\* value::operator/=: an Undefined source clears the target, and so does a
\* zero source, except bool /= bool
value_div_eq(t, s) ==
    IF s.tag = "Undefined" THEN Undef
    ELSE IF t.tag = "Undefined" THEN t
    ELSE IF s.tag = "Bool" THEN
        IF t.tag = "Bool" THEN MkBool(t.n = s.n)
        ELSE IF s.n = 0 THEN Undef ELSE t
    ELSE IF s.n = 0 THEN Undef
    ELSE IF t.tag = "Bool" THEN
        IF s.tag = "Double" THEN MkBool(t.n # 0)
        ELSE MkBool(TDiv(t.n, s.n) # 0)
    ELSE IF t.tag = "Int" /\ s.tag # "Double" THEN MkInt(TDiv(t.n, s.n))
    ELSE IF t.tag = "Time" /\ s.tag # "Double"
        THEN MkTime(t.n \div (s.n % TimeModulus))
    ELSE StoreNum(t, FDiv(Payload(t), Payload(s)))

(***************************************************************************)
(* Comparison.  operator== compares tag and payload; operator< and         *)
(* operator> switch on the other's tag and coerce it to this one's type.   *)
(***************************************************************************)
value_eq(a, b) == a.tag = b.tag /\ (a.tag = "Undefined" \/ Payload(a) = Payload(b))

value_ne(a, b) == ~value_eq(a, b)

\* the right-hand raw value as the left-hand type's comparison reads it
CmpSrc(a, b) ==
    IF a.tag = "Time" /\ b.tag = "Int" THEN [n |-> b.n % TimeModulus, d |-> 1]
    ELSE IF a.tag = "Time" /\ b.tag = "Double"
        THEN [n |-> FTrunc(Payload(b)) % TimeModulus, d |-> 1]
    ELSE Payload(b)

value_lt(a, b) ==
    /\ a.tag # "Undefined"
    /\ b.tag # "Undefined"
    /\ FLess(Payload(a), CmpSrc(a, b))

value_gt(a, b) ==
    /\ a.tag # "Undefined"
    /\ b.tag # "Undefined"
    /\ FLess(CmpSrc(a, b), Payload(a))

value_le(a, b) == ~value_gt(a, b)

value_ge(a, b) == ~value_lt(a, b)

(***************************************************************************)
(* The heap.  Every object the parser allocates is a node at an address    *)
(* (its index in the heap): a plain value, a variable, an expression or a  *)
(* function.  delete marks the node destroyed.                             *)
(***************************************************************************)
NewValue(v) ==
    [kind |-> "value", alive |-> TRUE, val |-> v, name |-> <<>>,
     expr |-> NULL, fcn |-> NULL, args |-> <<>>, op |-> ""]

\* variable::variable(name), variable::variable(name, value *)
NewVariable(aName, anExpr) ==
    [kind |-> "variable", alive |-> TRUE, val |-> Undef, name |-> aName,
     expr |-> anExpr, fcn |-> NULL, args |-> <<>>, op |-> ""]

\* expression::expression()
NewExpression ==
    [kind |-> "expression", alive |-> TRUE, val |-> Undef, name |-> <<>>,
     expr |-> NULL, fcn |-> NULL, args |-> <<>>, op |-> ""]

NewFunction(anOp) ==
    [kind |-> "function", alive |-> TRUE, val |-> Undef, name |-> <<>>,
     expr |-> NULL, fcn |-> NULL, args |-> <<>>, op |-> anOp]

Alloc(h, node) == Append(h, node)

isExpression(h, a) == h[a].kind = "expression"

(***************************************************************************)
(* Evaluation.  An evaluation returns [h, v, fault]: the heap with the     *)
(* refreshed scalar slots, the scalar, and what went wrong, if anything:   *)
(* "uaf" when a destroyed node was used, "hang" when a node's spinlock was *)
(* taken again by the evaluation that holds it.  held is the set of nodes  *)
(* whose lock the evaluation holds.                                        *)
(***************************************************************************)
Ret(h, v, fault) == [h |-> h, v |-> v, fault |-> fault]

ArithOps == {"max", "min", "sum", "diff", "prod", "quot"}
CompOps == {"eq", "ne", "lt", "gt", "le", "ge"}
BinOps == {"and", "or", "not"}

\* the folding step with its operands exchanged: *v op= ans
ArithStep_Swapped(op, ans, v) ==
    IF op = "max" THEN (IF value_gt(ans, v) THEN ValueAssign(ans) ELSE v)
    ELSE IF op = "min" THEN (IF value_lt(ans, v) THEN ValueAssign(ans) ELSE v)
    ELSE IF op = "sum" THEN value_plus_eq(v, ans)
    ELSE IF op = "diff" THEN value_minus_eq(v, ans)
    ELSE IF op = "prod" THEN value_times_eq(v, ans)
    ELSE value_div_eq(v, ans)

\* one step of the folding loops of max, min, sum, diff, prod and quot:
\* ans op= *v
ArithStep(op, ans, v) ==
    IF op = "max" THEN (IF value_gt(v, ans) THEN ValueAssign(v) ELSE ans)
    ELSE IF op = "min" THEN (IF value_lt(v, ans) THEN ValueAssign(v) ELSE ans)
    ELSE IF op = "sum" THEN value_plus_eq(ans, v)
    ELSE IF op = "diff" THEN value_minus_eq(ans, v)
    ELSE IF op = "prod" THEN value_times_eq(ans, v)
    ELSE value_div_eq(ans, v)

\* the test of comp::eval for one valid argument
CompTest(op, first, v) ==
    IF op = "eq" THEN ~value_ne(first, v)
    ELSE IF op = "ne" THEN ~value_eq(first, v)
    ELSE IF op = "lt" THEN value_lt(first, v)
    ELSE IF op = "gt" THEN value_gt(first, v)
    ELSE IF op = "le" THEN value_le(first, v)
    ELSE value_ge(first, v)

\* the first position at or after pos that holds no NULL
RECURSIVE SkipNull(_, _)
SkipNull(args, pos) ==
    IF pos <= Len(args) /\ args[pos] = NULL THEN SkipNull(args, pos + 1)
    ELSE pos

RECURSIVE EvalNode(_, _, _)
RECURSIVE ArithLoop(_, _, _, _, _, _)
RECURSIVE CompLoop(_, _, _, _, _, _, _)
RECURSIVE BinLoop(_, _, _, _, _, _, _)

\* the while loop of max::eval, min::eval, sum::eval, diff::eval, prod::eval
\* and quot::eval over the arguments after the first
ArithLoop(h, op, args, pos, ans, held) ==
    IF pos > Len(args) THEN Ret(h, ans, "none")
    ELSE IF args[pos] = NULL THEN ArithLoop(h, op, args, pos + 1, ans, held)
    ELSE With(EvalNode(h, args[pos], held), LAMBDA r :
             IF r.fault # "none" THEN r
             ELSE IF isUndefined(r.v)
                 THEN ArithLoop(r.h, op, args, pos + 1, ans, held)
             ELSE With(ArithStep(op, ans, r.h[args[pos]].val), LAMBDA a :
                      ArithLoop(r.h, op, args, pos + 1, a, held)))

\* the while loop of comp::eval; first is the pivot, cnt the valid count
CompLoop(h, op, args, pos, first, cnt, held) ==
    IF pos > Len(args)
    THEN Ret(h, IF cnt > 0 THEN MkBool(TRUE) ELSE Undef, "none")
    ELSE IF args[pos] = NULL
        THEN CompLoop(h, op, args, pos + 1, first, cnt, held)
    ELSE With(EvalNode(h, args[pos], held), LAMBDA r :
             IF r.fault # "none" THEN r
             ELSE IF isUndefined(r.v)
                 THEN CompLoop(r.h, op, args, pos + 1, first, cnt, held)
             ELSE With(r.h[args[pos]].val, LAMBDA v :
                      IF ~CompTest(op, first, v)
                      THEN Ret(r.h, MkBool(FALSE), "none")
                      ELSE CompLoop(r.h, op, args, pos + 1,
                               IF op \in {"eq", "ne"} THEN first ELSE ValueAssign(v),
                               cnt + 1, held)))

\* the while loop of bin::eval
BinLoop(h, op, args, pos, test, cnt, held) ==
    IF pos > Len(args)
    THEN Ret(h, IF cnt > 0 THEN MkBool(test) ELSE Undef, "none")
    ELSE IF args[pos] = NULL
        THEN BinLoop(h, op, args, pos + 1, test, cnt, held)
    ELSE With(EvalNode(h, args[pos], held), LAMBDA r :
             IF r.fault # "none" THEN r
             ELSE IF isUndefined(r.v)
                 THEN BinLoop(r.h, op, args, pos + 1, test, cnt, held)
             ELSE IF op = "and" /\ ~evalAsBool_nl(r.v)
                 THEN Ret(r.h, MkBool(FALSE), "none")
             ELSE IF op = "or" /\ evalAsBool_nl(r.v)
                 THEN Ret(r.h, MkBool(TRUE), "none")
             ELSE IF op = "not" THEN Ret(r.h, MkBool(~evalAsBool_nl(r.v)), "none")
             ELSE BinLoop(r.h, op, args, pos + 1, test, cnt + 1, held))

\* a fold that starts from the integer zero and not from the first argument
FcnEval_ZeroSeed(h, f, args, held) ==
    IF ~h[f].alive THEN Ret(h, Undef, "uaf")
    ELSE ArithLoop(h, h[f].op, args, 1, MkInt(0), held)

\* function::eval(args) of the function object at address f
FcnEval(h, f, args, held) ==
    IF ~h[f].alive THEN Ret(h, Undef, "uaf")
    ELSE LET op == h[f].op
             pos == SkipNull(args, 1)
         IN  IF op \in BinOps THEN BinLoop(h, op, args, 1, TRUE, 0, held)
             ELSE IF pos > Len(args) THEN Ret(h, Undef, "none")
             ELSE With(EvalNode(h, args[pos], held), LAMBDA r :
                      IF r.fault # "none" THEN r
                      ELSE IF op \in CompOps
                          THEN CompLoop(r.h, op, args, pos + 1, r.v, 0, held)
                      ELSE IF op = "diff" /\ pos + 1 > Len(args)
                          THEN Ret(r.h, value_times_eq(r.v, MkInt(0 - 1)), "none")
                      ELSE ArithLoop(r.h, op, args, pos + 1, r.v, held))

\* a variable that keeps the scalar of its first evaluation
variable_eval_nl_Snapshot(h, a, held) ==
    IF h[a].expr = NULL \/ ~isUndefined(h[a].val) THEN Ret(h, h[a].val, "none")
    ELSE With(EvalNode(h, h[a].expr, held), LAMBDA r :
             IF r.fault # "none" THEN r
             ELSE Ret([r.h EXCEPT ![a].val = ValueAssign(r.v)], r.v, "none"))

\* variable::eval_nl: a bound expression is evaluated first and its result
\* stored in the variable's scalar; held already contains a
variable_eval_nl(h, a, held) ==
    IF h[a].expr = NULL THEN Ret(h, h[a].val, "none")
    ELSE With(EvalNode(h, h[a].expr, held), LAMBDA r :
             IF r.fault # "none" THEN r
             ELSE Ret([r.h EXCEPT ![a].val = ValueAssign(r.v)], r.v, "none"))

\* expression::evalAs*_nl: with a function, set_nl(_fcn->eval(_args)) first;
\* held already contains a
expression_eval_nl(h, a, held) ==
    IF h[a].fcn = NULL THEN Ret(h, h[a].val, "none")
    ELSE With(FcnEval(h, h[a].fcn, h[a].args, held), LAMBDA r :
             IF r.fault # "none" THEN r
             ELSE Ret([r.h EXCEPT ![a].val = ValueAssign(r.v)], r.v, "none"))

\* value::eval() of the node at address a: take the node's spinlock, then
\* the node's own eval_nl
EvalNode(h, a, held) ==
    IF ~h[a].alive THEN Ret(h, Undef, "uaf")
    ELSE IF a \in held THEN Ret(h, Undef, "hang")
    ELSE IF h[a].kind = "variable" THEN variable_eval_nl(h, a, held \cup {a})
    ELSE IF h[a].kind = "expression"
        THEN expression_eval_nl(h, a, held \cup {a})
    ELSE Ret(h, h[a].val, "none")

\* the nodes whose value::eval() is certainly called, each under the locks
\* already taken, while the node at address a is evaluated: the bound
\* expression of a variable; every argument of an arithmetic function; the
\* first argument of a comparison or logical function, which may stop there
Callees(h, a) ==
    IF h[a].kind = "variable"
    THEN IF h[a].expr = NULL THEN {} ELSE {h[a].expr}
    ELSE IF h[a].kind = "expression" /\ h[a].fcn # NULL /\ h[h[a].fcn].alive
        THEN IF h[h[a].fcn].op \in CompOps \cup BinOps
             THEN {h[a].args[i] : i \in {SkipNull(h[a].args, 1)}
                                        \cap DOMAIN h[a].args}
             ELSE {h[a].args[i] : i \in DOMAIN h[a].args} \ {NULL}
    ELSE {}

\* the greatest number of node spinlocks the thread holds at one time while
\* value::eval() runs on the node at address a with held already locked
RECURSIVE HeldLocks(_, _, _)
HeldLocks(h, a, held) ==
    IF ~h[a].alive \/ a \in held THEN Cardinality(held)
    ELSE IF Callees(h, a) = {} THEN Cardinality(held) + 1
    ELSE CHOOSE m \in {HeldLocks(h, k, held \cup {a}) : k \in Callees(h, a)} :
             \A k \in Callees(h, a) : HeldLocks(h, k, held \cup {a}) <= m

(***************************************************************************)
(* Tokens.  A token is the sequence of the characters pushed onto it.      *)
(***************************************************************************)
Digits == {"0", "1", "2", "3", "4", "5", "6", "7", "8", "9"}

DigitVal(c) ==
    IF c = "0" THEN 0 ELSE IF c = "1" THEN 1 ELSE IF c = "2" THEN 2
    ELSE IF c = "3" THEN 3 ELSE IF c = "4" THEN 4 ELSE IF c = "5" THEN 5
    ELSE IF c = "6" THEN 6 ELSE IF c = "7" THEN 7 ELSE IF c = "8" THEN 8
    ELSE 9

isspace(c) == c \in {" ", "\n", "\t"}

\* the characters parseConst accepts in a number
NumberChars == Digits \cup {"+", "-", ".", "e", "E"}

Tail2(t, i) == SubSeq(t, i, Len(t))

\* the length of the run of digits that starts t
RECURSIVE DigitRun(_)
DigitRun(t) ==
    IF t # <<>> /\ Head(t) \in Digits THEN 1 + DigitRun(Tail(t)) ELSE 0

\* the number a run of digits denotes, acc being the digits read so far
RECURSIVE DigitsValue(_, _)
DigitsValue(t, acc) ==
    IF t # <<>> /\ Head(t) \in Digits
    THEN DigitsValue(Tail(t), 10 * acc + DigitVal(Head(t)))
    ELSE acc

HasSign(t) == t # <<>> /\ Head(t) \in {"+", "-"}

Unsigned(t) == IF HasSign(t) THEN Tail(t) ELSE t

SignOf(t) == IF t # <<>> /\ Head(t) = "-" THEN 0 - 1 ELSE 1

\* atoi: an optional sign, then the digits up to the first other character
atoi(t) == SignOf(t) * DigitsValue(Unsigned(t), 0)

RECURSIVE Pow10(_)
Pow10(k) == IF k = 0 THEN 1 ELSE 10 * Pow10(k - 1)

\* atof: [sign] digits [. digits] [(e|E) [sign] digits], the longest prefix
\* of that shape; 0.0 when the mantissa has no digit
atof(t) ==
    LET u == Unsigned(t)
        ni == DigitRun(u)
        afterInt == Tail2(u, ni + 1)
        hasDot == afterInt # <<>> /\ Head(afterInt) = "."
        fracPart == IF hasDot THEN Tail(afterInt) ELSE <<>>
        nf == DigitRun(fracPart)
        afterFrac == IF hasDot THEN Tail2(fracPart, nf + 1) ELSE afterInt
        mant == Frac(DigitsValue(u, 0) * Pow10(nf) + DigitsValue(fracPart, 0),
                     Pow10(nf))
        hasE == afterFrac # <<>> /\ Head(afterFrac) \in {"e", "E"}
        expPart == IF hasE THEN Tail(afterFrac) ELSE <<>>
        ne == DigitRun(Unsigned(expPart))
        ex == DigitsValue(Unsigned(expPart), 0)
        scaled == IF ne = 0 THEN mant
                  ELSE IF SignOf(expPart) < 0
                      THEN FDiv(mant, [n |-> Pow10(ex), d |-> 1])
                  ELSE FMul(mant, [n |-> Pow10(ex), d |-> 1])
    IN  IF ni + nf = 0 THEN [n |-> 0, d |-> 1]
        ELSE Frac(SignOf(t) * scaled.n, scaled.d)

\* c - '0' for the characters a timestamp is written with
CharDiff(c) ==
    IF c \in Digits THEN DigitVal(c)
    ELSE IF c = ":" THEN 10
    ELSE IF c = "." THEN 0 - 2
    ELSE IF c = "-" THEN 0 - 3
    ELSE 0 - 16

HasChar(t, c) == \E i \in DOMAIN t : t[i] = c

\* std::string::rfind: the last position of c in t, 0 when there is none
rfind(t, c) ==
    IF HasChar(t, c) THEN CHOOSE i \in DOMAIN t :
                              t[i] = c /\ \A j \in DOMAIN t : t[j] = c => j <= i
    ELSE 0

TwoDigits(t, i) == i + 1 <= Len(t) /\ t[i] \in Digits /\ t[i + 1] \in Digits

\* strptime "%Y-%m-%d" on a text that starts with the ten characters
\* YYYY-MM-DD, the month in 1..12 and the day in 1..31
IsDate(t) ==
    /\ Len(t) >= 10
    /\ \A i \in {1, 2, 3, 4, 6, 7, 9, 10} : t[i] \in Digits
    /\ t[5] = "-" /\ t[8] = "-"
    /\ DigitsValue(SubSeq(t, 6, 7), 0) \in 1..12
    /\ DigitsValue(SubSeq(t, 9, 10), 0) \in 1..31

\* strptime " %H:%M:%S" on what follows the date
IsTimeAfterDate(t) ==
    /\ Len(t) >= 19
    /\ t[11] = " " /\ t[14] = ":" /\ t[17] = ":"
    /\ TwoDigits(t, 12) /\ TwoDigits(t, 15) /\ TwoDigits(t, 18)
    /\ DigitsValue(SubSeq(t, 12, 13), 0) <= 23
    /\ DigitsValue(SubSeq(t, 15, 16), 0) <= 59
    /\ DigitsValue(SubSeq(t, 18, 19), 0) <= 61

\* a * b modulo 2^TimeBits
MulMod(a, b) == ((a % TimeModulus) * (b % TimeModulus)) % TimeModulus

\* mktime for a date, in seconds from the epoch modulo 2^TimeBits, the time
\* zone being UTC
mktime(y, m, d, secs) ==
    LET yy == IF m <= 2 THEN y - 1 ELSE y
        era == yy \div 400
        yoe == yy - era * 400
        mp == IF m > 2 THEN m - 3 ELSE m + 9
        doy == ((153 * mp + 2) \div 5) + d - 1
        doe == yoe * 365 + (yoe \div 4) - (yoe \div 100) + doy
    IN  (MulMod(era * 146097 + doe - 719468, 86400) + secs) % TimeModulus

\* util::timer::parseTimestamp: microseconds from the epoch (or from midnight
\* for a time of day), kept modulo 2^TimeBits as the model's timestamps are
parseTimestamp(t) ==
    LET len == Len(t)
        gotDate == HasChar(t, "-") /\ len >= 10
        gotTime == HasChar(t, ":") /\ len >= 8
        date == mktime(DigitsValue(SubSeq(t, 1, 4), 0),
                       DigitsValue(SubSeq(t, 6, 7), 0),
                       DigitsValue(SubSeq(t, 9, 10), 0), 0)
        stamp ==
            IF gotDate /\ gotTime THEN
                (IF IsDate(t) /\ IsTimeAfterDate(t)
                 THEN MulMod(date + DigitsValue(SubSeq(t, 12, 13), 0) * 3600
                                  + DigitsValue(SubSeq(t, 15, 16), 0) * 60
                                  + DigitsValue(SubSeq(t, 18, 19), 0), 1000000)
                 ELSE 0)
            ELSE IF gotDate THEN (IF IsDate(t) THEN MulMod(date, 1000000) ELSE 0)
            ELSE IF gotTime THEN
                LET hrs == CharDiff(t[1]) * 10 + CharDiff(t[2])
                    mins == CharDiff(t[4]) * 10 + CharDiff(t[5])
                    secs == CharDiff(t[7]) * 10 + CharDiff(t[8])
                IN  MulMod((((hrs * 60) + mins) * 60) + secs, 1000000)
            ELSE 0
        pos == rfind(t, ".")
        frac == IF pos # 0 /\ pos < len
                THEN atoi(SubSeq(Tail2(t, pos + 1) \o <<"0", "0", "0", "0", "0", "0", "0">>, 1, 6))
                ELSE 0
    IN  (stamp + frac) % TimeModulus

\* parser::parseConst: the scalar a token denotes, or NoConst (NULL) when
\* the token is no constant
NoConst == [tag |-> "None", n |-> 0, d |-> 1]

parseConst(t) ==
    IF t[1] = "'" /\ t[Len(t)] = "'"
    THEN MkTime(parseTimestamp(SubSeq(t, 2, Len(t) - 1)))
    ELSE IF \A i \in 1..Len(t) : t[i] \in NumberChars THEN
        IF \A i \in 1..Len(t) : t[i] \notin {".", "e", "E"}
        THEN MkInt(atoi(t))
        ELSE MkDouble(atof(t))
    ELSE IF t = <<"t", "r", "u", "e">> THEN MkBool(TRUE)
    ELSE IF t = <<"f", "a", "l", "s", "e">> THEN MkBool(FALSE)
    ELSE NoConst

(***************************************************************************)
(* Destruction and copying of nodes.  An operation on the heap returns     *)
(* [h, fault] or [h, a, fault]; the fault is "double_free" when a          *)
(* destroyed node is destroyed again and "uaf" when one is read or         *)
(* written.                                                                *)
(***************************************************************************)
\* delete of the node at address a: variable::~variable deletes its _expr,
\* expression::~expression only clears its argument list
RECURSIVE Delete(_, _)
Delete(h, a) ==
    IF ~h[a].alive THEN [h |-> h, fault |-> "double_free"]
    ELSE With([h EXCEPT ![a].alive = FALSE], LAMBDA h1 :
             IF h[a].kind = "variable" /\ h[a].expr # NULL
             THEN Delete(h1, h[a].expr)
             ELSE [h |-> h1, fault |-> "none"])

\* if (_expr != NULL) { delete _expr; _expr = NULL; }
DropExpr(h, a) ==
    IF h[a].expr = NULL THEN [h |-> h, fault |-> "none"]
    ELSE With(Delete(h, h[a].expr), LAMBDA r :
             [h |-> [r.h EXCEPT ![a].expr = NULL], fault |-> r.fault])

\* clone(): value::clone, expression::clone and variable::clone; the copy of
\* a variable clones the bound expression, the copy of an expression shares
\* the function and the arguments
RECURSIVE Clone(_, _)
Clone(h, a) ==
    IF ~h[a].alive THEN [h |-> h, a |-> NULL, fault |-> "uaf"]
    ELSE IF h[a].kind = "variable" /\ h[a].expr # NULL THEN
        With(Clone(h, h[a].expr), LAMBDA r :
            With(Alloc(r.h, [h[a] EXCEPT !.expr = r.a]), LAMBDA h1 :
                [h |-> h1, a |-> Len(h1), fault |-> r.fault]))
    ELSE With(Alloc(h, h[a]), LAMBDA h1 :
             [h |-> h1, a |-> Len(h1), fault |-> "none"])

\* variable::operator=(const variable &)
variable_assign_variable(h, dst, from) ==
    IF dst = from THEN [h |-> h, fault |-> "none"]
    ELSE IF ~h[dst].alive \/ ~h[from].alive THEN [h |-> h, fault |-> "uaf"]
    ELSE With(DropExpr([h EXCEPT ![dst].val = ValueAssign(h[from].val),
                                 ![dst].name = h[from].name], dst), LAMBDA d :
             IF h[from].expr = NULL \/ d.fault # "none" THEN d
             ELSE With(Clone(d.h, h[from].expr), LAMBDA c :
                      [h |-> [c.h EXCEPT ![dst].expr = c.a], fault |-> c.fault]))

\* variable::operator=(const value &): the scalar is copied and a bound
\* expression is dropped
variable_assign_value(h, dst, v) ==
    IF ~h[dst].alive THEN [h |-> h, fault |-> "uaf"]
    ELSE DropExpr([h EXCEPT ![dst].val = ValueAssign(v)], dst)

\* variable::set(value *): clear_nl() leaves a bound expression alone (it
\* deletes _expr only when _expr is NULL), then _expr = aValue
variable_set_ptr(h, a, p) ==
    [h EXCEPT ![a].val = Undef, ![a].expr = p]

(***************************************************************************)
(* The parser's tables.  A table maps a name (a token) to an address.      *)
(***************************************************************************)
At(table, aName) == IF aName \in DOMAIN table THEN table[aName] ELSE NULL

Put(table, aName, a) == (aName :> a) @@ table

Erase(table, aName) == [k \in DOMAIN table \ {aName} |-> table[k]]

(***************************************************************************)
(* Compilation.  st is the part of the parser a compilation reads and      *)
(* writes: [h, fcns, vars, consts, subs].  A parsing step returns          *)
(* [st, pos, node, err]: err is "throw" when the code throws a             *)
(* std::runtime_error, and a fault ("uaf", "double_free", "null") when it  *)
(* runs into undefined behaviour; whatever was written before stays.       *)
(***************************************************************************)
PR(st, pos, node, err) == [st |-> st, pos |-> pos, node |-> node, err |-> err]

SET == <<"s", "e", "t">>

\* expression::addToArgs
addToArgs(h, e, a) == [h EXCEPT ![e].args = Append(@, a)]

\* parser::lookUpVariable: the variable of that name, or a new placeholder
\* entered into the table
lookUpVariable(st, aName) ==
    IF At(st.vars, aName) # NULL THEN [st |-> st, a |-> At(st.vars, aName)]
    ELSE With(Alloc(st.h, NewVariable(aName, NULL)), LAMBDA h1 :
             [st |-> [st EXCEPT !.h = h1, !.vars = Put(st.vars, aName, Len(h1))],
              a |-> Len(h1)])

\* parser::lookUpFunction
lookUpFunction(st, aName) == At(st.fcns, aName)

\* parser::handleToken: the head token names the function; a later token is
\* a constant (pooled) or else a variable (looked up or created)
handleToken(st, e, token, pos) ==
    IF st.h[e].fcn = NULL THEN
        IF lookUpFunction(st, token) = NULL THEN PR(st, pos, NULL, "throw")
        ELSE PR([st EXCEPT !.h[e].fcn = lookUpFunction(st, token)],
                pos, e, "none")
    ELSE IF parseConst(token) # NoConst THEN
        With(Alloc(st.h, NewValue(parseConst(token))), LAMBDA h1 :
            PR([st EXCEPT !.h = addToArgs(h1, e, Len(h1)),
                          !.consts = Append(st.consts, Len(h1))],
               pos, e, "none"))
    ELSE With(lookUpVariable(st, token), LAMBDA r :
             PR([r.st EXCEPT !.h = addToArgs(r.st.h, e, r.a)], pos, e, "none"))

\* parser::addVariable(variable * &): a variable of a new name enters the
\* table; for a known name the old node is assigned from the new one, the
\* new one is deleted and the caller's pointer is set to the old node
addVariablePtr(st, a, pos) ==
    LET old == At(st.vars, st.h[a].name)
    IN  IF old = NULL
        THEN PR([st EXCEPT !.vars = Put(st.vars, st.h[a].name, a)], pos, a, "none")
        ELSE With(variable_assign_variable(st.h, old, a), LAMBDA r :
                 IF r.fault # "none" THEN PR([st EXCEPT !.h = r.h], pos, old, r.fault)
                 ELSE With(Delete(r.h, a), LAMBDA d :
                          PR([st EXCEPT !.h = d.h], pos, old, d.fault)))

\* the closing step of parseExpr and parseVariable: move past a ')'
PastClose(src, pos) == IF pos <= Len(src) /\ src[pos] = ")" THEN pos + 1 ELSE pos

RECURSIVE parseExpr(_, _, _)
RECURSIVE ParseExprLoop(_, _, _, _, _, _)
RECURSIVE ParseVarLoop(_, _, _, _, _, _, _)

\* retval->set(parseConst(token)) in parseVariable: a constant becomes the
\* variable's bound value, no constant leaves the variable as it is
SetFromToken(st, retval, token) ==
    IF parseConst(token) = NoConst THEN [st |-> st, ok |-> FALSE]
    ELSE With(Alloc(st.h, NewValue(parseConst(token))), LAMBDA h1 :
             [st |-> [st EXCEPT !.h = variable_set_ptr(h1, retval, Len(h1))],
              ok |-> TRUE])

\* the scanning loop of parser::parseVariable and what follows it
ParseVarLoop(src, st, pos, retval, token, in_token, complete) ==
    IF pos <= Len(src) /\ src[pos] # ")" THEN
        IF src[pos] = "(" THEN
            IF retval = NULL THEN PR(st, pos, NULL, "throw")
            ELSE With(parseExpr(src, st, pos), LAMBDA r :
                     IF r.err # "none" THEN r
                     ELSE IF r.node = NULL
                         THEN ParseVarLoop(src, r.st, r.pos, retval, token,
                                           in_token, FALSE)
                     ELSE With([r.st EXCEPT
                                   !.h = variable_set_ptr(r.st.h, retval, r.node)],
                               LAMBDA st1 :
                                   ParseVarLoop(src, st1, r.pos, retval, token,
                                                in_token, TRUE)))
        ELSE IF isspace(src[pos]) THEN
            IF ~in_token
            THEN ParseVarLoop(src, st, pos + 1, retval, token, in_token, complete)
            ELSE IF retval = NULL THEN
                With(Alloc(st.h, NewVariable(token, NULL)), LAMBDA h1 :
                    With([st EXCEPT !.h = h1], LAMBDA st1 :
                        ParseVarLoop(src, st1, pos + 1, Len(h1), <<>>, FALSE,
                                     complete)))
            ELSE IF ~complete THEN
                With(SetFromToken(st, retval, token), LAMBDA r :
                    ParseVarLoop(src, r.st, pos + 1, retval, <<>>, FALSE, r.ok))
            ELSE With(Delete(st.h, retval), LAMBDA d :
                     PR([st EXCEPT !.h = d.h], pos, NULL,
                        IF d.fault # "none" THEN d.fault ELSE "throw"))
        ELSE With(Append(token, src[pos]), LAMBDA t :
                 ParseVarLoop(src, st, pos + 1, retval, t, TRUE, complete))
    ELSE IF ~in_token THEN PR(st, PastClose(src, pos), retval, "none")
    ELSE IF ~complete THEN
        IF retval = NULL THEN PR(st, pos, NULL, "null")
        ELSE PR(SetFromToken(st, retval, token).st, PastClose(src, pos),
                retval, "none")
    ELSE With(Delete(st.h, retval), LAMBDA d :
             PR([st EXCEPT !.h = d.h], pos, NULL,
                IF d.fault # "none" THEN d.fault ELSE "throw"))

\* parser::parseVariable, entered just after the token "set"
parseVariable(src, st, pos) == ParseVarLoop(src, st, pos, NULL, <<>>, FALSE, FALSE)

\* the scanning loop of parser::parseExpr and what follows it
ParseExprLoop(src, st, pos, e, token, in_token) ==
    IF pos <= Len(src) /\ src[pos] # ")" THEN
        IF src[pos] = "(" THEN
            IF st.h[e].fcn = NULL
            THEN PR([st EXCEPT !.h = Delete(st.h, e).h], pos, NULL, "throw")
            ELSE With(parseExpr(src, st, pos), LAMBDA r :
                     IF r.err # "none" THEN r
                     ELSE IF r.node = NULL
                         THEN ParseExprLoop(src, r.st, r.pos, e, token, in_token)
                     ELSE With([r.st EXCEPT
                                   !.h = addToArgs(r.st.h, e, r.node),
                                   !.subs = IF isExpression(r.st.h, r.node)
                                            THEN Append(r.st.subs, r.node)
                                            ELSE r.st.subs],
                               LAMBDA st1 :
                                   ParseExprLoop(src, st1, r.pos, e, token,
                                                 in_token)))
        ELSE IF isspace(src[pos]) THEN
            IF ~in_token THEN ParseExprLoop(src, st, pos + 1, e, token, in_token)
            ELSE IF token = SET THEN
                With([st EXCEPT !.h = Delete(st.h, e).h], LAMBDA st1 :
                    With(parseVariable(src, st1, pos), LAMBDA r :
                        IF r.err # "none" THEN r
                        ELSE IF r.node = NULL THEN PR(r.st, r.pos, NULL, "throw")
                        ELSE With(addVariablePtr(r.st, r.node, r.pos), LAMBDA v :
                                 PR(v.st, PastClose(src, v.pos), v.node, v.err))))
            ELSE With(handleToken(st, e, token, pos), LAMBDA r :
                     IF r.err # "none" THEN r
                     ELSE ParseExprLoop(src, r.st, pos + 1, e, <<>>, FALSE))
        ELSE With(Append(token, src[pos]), LAMBDA t :
                 ParseExprLoop(src, st, pos + 1, e, t, TRUE))
    ELSE IF in_token THEN
        With(handleToken(st, e, token, pos), LAMBDA r :
            IF r.err # "none" THEN r
            ELSE PR(r.st, PastClose(src, pos), e, "none"))
    ELSE PR(st, PastClose(src, pos), e, "none")

\* parser::parseExpr at an opening '('
parseExpr(src, st, pos) ==
    IF src[pos] # "(" THEN PR(st, pos, NULL, "throw")
    ELSE With(Alloc(st.h, NewExpression), LAMBDA h1 :
             With([st EXCEPT !.h = h1], LAMBDA st1 :
                 ParseExprLoop(src, st1, pos + 1, Len(h1), <<>>, FALSE)))

(***************************************************************************)
(* The parser.  p is the parser object: [src, h, fcns, vars, consts, subs, *)
(* root], root being the compiled expression _expr.  An operation returns  *)
(* [p, fault].                                                             *)
(***************************************************************************)
OpRet(p, fault) == [p |-> p, fault |-> fault]

\* the addresses of a table or a pool in the order they are visited
RECURSIVE SetToSeq(_)
SetToSeq(S) ==
    IF S = {} THEN <<>>
    ELSE LET a == CHOOSE x \in S : \A y \in S : x <= y
         IN  <<a>> \o SetToSeq(S \ {a})

Range(f) == {f[k] : k \in DOMAIN f}

\* the loops of clearFunctions, clearVariables, clearConsts and clearSubExpr:
\* delete every entry that is not NULL
RECURSIVE DeleteAll(_, _)
DeleteAll(h, as) ==
    IF as = <<>> THEN [h |-> h, fault |-> "none"]
    ELSE IF Head(as) = NULL THEN DeleteAll(h, Tail(as))
    ELSE With(Delete(h, Head(as)), LAMBDA d :
             IF d.fault # "none" THEN d ELSE DeleteAll(d.h, Tail(as)))

\* parser::setSource
setSource(p, aSource) ==
    IF p.root = NULL THEN OpRet([p EXCEPT !.src = aSource], "none")
    ELSE With(Delete(p.h, p.root), LAMBDA d :
             OpRet([p EXCEPT !.src = aSource, !.h = d.h, !.root = NULL], d.fault))

\* parser::addVariable(const std::string &, const value &)
addVariable(p, aName, aValue) ==
    IF At(p.vars, aName) # NULL THEN
        With(variable_assign_value(p.h, At(p.vars, aName), aValue), LAMBDA r :
            OpRet([p EXCEPT !.h = r.h], r.fault))
    ELSE With(Alloc(p.h, NewValue(ValueAssign(aValue))), LAMBDA h1 :
             With(Alloc(h1, NewVariable(aName, Len(h1))), LAMBDA h2 :
                 OpRet([p EXCEPT !.h = h2, !.vars = Put(p.vars, aName, Len(h2))],
                       "none")))

\* parser::removeVariable
removeVariable(p, aName) ==
    IF aName \notin DOMAIN p.vars THEN OpRet(p, "none")
    ELSE With(DeleteAll(p.h, <<p.vars[aName]>>), LAMBDA d :
             OpRet([p EXCEPT !.h = d.h, !.vars = Erase(p.vars, aName)], d.fault))

\* parser::clearVariables
clearVariables(p) ==
    With(DeleteAll(p.h, SetToSeq(Range(p.vars))), LAMBDA d :
        OpRet([p EXCEPT !.h = d.h,
                        !.vars = IF d.fault = "none" THEN <<>> ELSE @], d.fault))

\* parser::addFunction with a newly made function object
addFunction(p, aName, anOp) ==
    With(Alloc(p.h, NewFunction(anOp)), LAMBDA h1 :
        With(DeleteAll(h1, <<At(p.fcns, aName)>>), LAMBDA d :
            OpRet([p EXCEPT !.h = d.h, !.fcns = Put(p.fcns, aName, Len(h1))],
                  d.fault)))

\* parser::removeFunction: the entry is erased, the function is not deleted
removeFunction(p, aName) == OpRet([p EXCEPT !.fcns = Erase(p.fcns, aName)], "none")

\* parser::clearFunctions
clearFunctions(p) ==
    With(DeleteAll(p.h, SetToSeq(Range(p.fcns))), LAMBDA d :
        OpRet([p EXCEPT !.h = d.h,
                        !.fcns = IF d.fault = "none" THEN <<>> ELSE @], d.fault))

\* parser::clearConsts
clearConsts(p) ==
    With(DeleteAll(p.h, p.consts), LAMBDA d :
        OpRet([p EXCEPT !.h = d.h,
                        !.consts = IF d.fault = "none" THEN <<>> ELSE @], d.fault))

\* parser::clearSubExpr
clearSubExpr(p) ==
    With(DeleteAll(p.h, p.subs), LAMBDA d :
        OpRet([p EXCEPT !.h = d.h,
                        !.subs = IF d.fault = "none" THEN <<>> ELSE @], d.fault))


\* the run of operations op1; op2; ...: a fault ends it
Then(r, Op(_)) == With(r, LAMBDA q : IF q.fault # "none" THEN q ELSE Op(q.p))

\* the names and functions of parser::useDefaultFunctions, in its order
DefaultFunctions ==
    << [name |-> <<"m", "a", "x">>, op |-> "max"],
       [name |-> <<"m", "i", "n">>, op |-> "min"],
       [name |-> <<"+">>, op |-> "sum"],
       [name |-> <<"-">>, op |-> "diff"],
       [name |-> <<"*">>, op |-> "prod"],
       [name |-> <<"/">>, op |-> "quot"],
       [name |-> <<"=", "=">>, op |-> "eq"],
       [name |-> <<"!", "=">>, op |-> "ne"],
       [name |-> <<"<">>, op |-> "lt"],
       [name |-> <<">">>, op |-> "gt"],
       [name |-> <<"<", "=">>, op |-> "le"],
       [name |-> <<">", "=">>, op |-> "ge"],
       [name |-> <<"a", "n", "d">>, op |-> "and"],
       [name |-> <<"o", "r">>, op |-> "or"],
       [name |-> <<"n", "o", "t">>, op |-> "not"] >>

RECURSIVE AddFunctions(_, _)
AddFunctions(r, fs) ==
    IF fs = <<>> \/ r.fault # "none" THEN r
    ELSE With(addFunction(r.p, Head(fs).name, Head(fs).op), LAMBDA q :
             AddFunctions(q, Tail(fs)))

\* parser::useDefaultFunctions
useDefaultFunctions(p) == AddFunctions(OpRet(p, "none"), DefaultFunctions)

\* the values of parser::useDefaultVariables
E_VALUE == MkDouble(Frac(271828183, 100000000))
PI_VALUE == MkDouble(Frac(314159265, 100000000))

\* parser::useDefaultVariables
useDefaultVariables(p) ==
    Then(addVariable(p, <<"e">>, E_VALUE),
         LAMBDA q : addVariable(q, <<"p", "i">>, PI_VALUE))

\* parser::clear
clear(p) ==
    Then(Then(Then(Then(setSource(p, <<>>), clearFunctions), clearVariables),
              clearConsts), clearSubExpr)

\* parser::reset
reset(p) == Then(Then(clear(p), useDefaultFunctions), useDefaultVariables)

\* parser::parser(): the empty parser, then reset()
EmptyParser ==
    [src |-> <<>>, h |-> <<>>, fcns |-> <<>>, vars |-> <<>>, consts |-> <<>>,
     subs |-> <<>>, root |-> NULL]

NewParser == reset(EmptyParser).p

\* _src.find('('): the first position of a '(', or past the end
RECURSIVE Find(_, _)
Find(s, pos) ==
    IF pos > Len(s) \/ s[pos] = "(" THEN pos ELSE Find(s, pos + 1)

\* parser::compile: [p, ok, err]; a compiled parser is left alone, otherwise
\* the first form of the source is parsed and becomes the root
compile(p) ==
    IF p.root # NULL THEN [p |-> p, ok |-> TRUE, err |-> "none"]
    ELSE IF Find(p.src, 1) > Len(p.src) THEN [p |-> p, ok |-> FALSE, err |-> "none"]
    ELSE With(parseExpr(p.src, p, Find(p.src, 1)), LAMBDA r :
             IF r.err # "none" THEN [p |-> r.st, ok |-> FALSE, err |-> r.err]
             ELSE [p |-> [r.st EXCEPT !.root = r.node], ok |-> r.node # NULL,
                   err |-> "none"])

\* parser::eval: [p, v, err]; err is "throw" when the compilation threw,
\* "hang" when the evaluation never returns, else a fault or "none"
eval(p) ==
    With(compile(p), LAMBDA c :
        IF c.err # "none" \/ ~c.ok \/ c.p.root = NULL
        THEN [p |-> c.p, v |-> Undef, err |-> c.err]
        ELSE With(EvalNode(c.p.h, c.p.root, {}), LAMBDA r :
                 [p |-> [c.p EXCEPT !.h = r.h], v |-> ValueAssign(r.v),
                  err |-> r.fault]))


(***************************************************************************)
(* The parser as a state machine: one parser object and the calls made on  *)
(* it.                                                                     *)
(***************************************************************************)
VARIABLES
    src,        \* _src
    heap,       \* the objects allocated so far
    fcns,       \* _fcns
    variables,  \* _vars
    consts,     \* _const
    subs,       \* _subs
    root,       \* _expr
    fault,      \* "none", or the undefined behaviour a call ran into
    lastOp,     \* the last call made
    lastArg,    \* its arguments
    result,     \* what it returned
    pre,        \* the parser, the call and the result before the last call
    trip,       \* progress of setSource(s); eval(); setSource(s); eval()
    ops,        \* number of calls made
    input,      \* the input drawn for a direct application
    output,     \* its result
    threads     \* one scalar node and the two threads that use it

vars == <<src, heap, fcns, variables, consts, subs, root, fault, lastOp,
          lastArg, result, pre, trip, ops, input, output, threads>>

\* the parser object of the current state
Cur ==
    [src |-> src, h |-> heap, fcns |-> fcns, vars |-> variables,
     consts |-> consts, subs |-> subs, root |-> root]

\* "(set x 5)"
SrcSet == <<"(", "s", "e", "t", " ", "x", " ", "5", ")">>
\* "(+ x 1)"
SrcUse == <<"(", "+", " ", "x", " ", "1", ")">>
\* "(set x (+ 1 2 3))\n(* x 3 (* x 2))"
SrcTwo ==
    <<"(", "s", "e", "t", " ", "x", " ", "(", "+", " ", "1", " ", "2", " ",
      "3", ")", ")", "\n", "(", "*", " ", "x", " ", "3", " ", "(", "*", " ",
      "x", " ", "2", ")", ")">>
\* "(* (set x (+ 1 2 3)) 3 (* x 2))"
SrcIn ==
    <<"(", "*", " ", "(", "s", "e", "t", " ", "x", " ", "(", "+", " ", "1",
      " ", "2", " ", "3", ")", ")", " ", "3", " ", "(", "*", " ", "x", " ",
      "2", ")", ")">>
\* "(+ 1 y (f 2))"
SrcBad ==
    <<"(", "+", " ", "1", " ", "y", " ", "(", "f", " ", "2", ")", ")">>
\* "(set x (+ x 1))"
SrcCycle ==
    <<"(", "s", "e", "t", " ", "x", " ", "(", "+", " ", "x", " ", "1", ")", ")">>

Sources == {SrcSet, SrcUse, SrcTwo, SrcIn, SrcBad, SrcCycle}

VarNames == {<<"x">>, <<"y">>}
VarValues == {MkInt(7)}

NoArg == [name |-> <<>>, v |-> Undef]
NoResult == [status |-> "none", v |-> Undef]
NoTrip == [phase |-> 0, s |-> <<>>, r |-> NoResult]
NoInput == <<>>
\* no thread is running: the node is Undefined and its lock is free
NoThreads ==
    [type |-> "Undefined", payload |-> Undef, lock |-> "free", wpc |-> "done",
     rpc |-> "done", seenType |-> "none", seenPayload |-> NoConst]

\* what a call that ran into undefined behaviour may be seen to return: any
\* scalar, or nothing because the process died
UBScalars == {Undef, MkInt(0)}
UBResults ==
    {[status |-> "ub", v |-> u] : u \in UBScalars}
        \cup {[status |-> "crash", v |-> Undef]}

Faults == {"uaf", "double_free", "null"}

\* the state after a call: the parser q it leaves, what went wrong, and what
\* the caller sees
Install(q, f, op, arg, res, t) ==
    /\ src' = q.src
    /\ heap' = q.h
    /\ fcns' = q.fcns
    /\ variables' = q.vars
    /\ consts' = q.consts
    /\ subs' = q.subs
    /\ root' = q.root
    /\ fault' = f
    /\ lastOp' = op
    /\ lastArg' = arg
    /\ IF f \in Faults THEN result' \in UBResults ELSE result' = res
    /\ pre' = [p |-> Cur, lastOp |-> lastOp, result |-> result]
    /\ trip' = t
    /\ ops' = ops + 1
    /\ UNCHANGED <<input, output, threads>>

CanCall == fault = "none" /\ ops < MaxOps

\* a newly constructed parser on which no call has been made
InitObjects ==
    /\ src = NewParser.src
    /\ heap = NewParser.h
    /\ fcns = NewParser.fcns
    /\ variables = NewParser.vars
    /\ consts = NewParser.consts
    /\ subs = NewParser.subs
    /\ root = NewParser.root
    /\ fault = "none"
    /\ lastOp = "init"
    /\ lastArg = NoArg
    /\ result = NoResult
    /\ pre = [p |-> NewParser, lastOp |-> "init", result |-> NoResult]
    /\ trip = NoTrip
    /\ ops = 0
    /\ output = NoResult

InitParser == InitObjects /\ threads = NoThreads

Init == InitParser /\ input = NoInput

\* p.setSource(s)
SetSource(s) ==
    /\ CanCall
    /\ \E r \in {setSource(Cur, s)} :
           Install(r.p, r.fault, "setSource", [name |-> s, v |-> Undef],
                   NoResult,
                   IF trip.phase = 2 /\ trip.s = s
                   THEN [trip EXCEPT !.phase = 3]
                   ELSE [phase |-> 1, s |-> s, r |-> NoResult])

\* the caller's view of parser::eval
EvalResult(r) ==
    IF r.err = "none" THEN [status |-> "value", v |-> r.v]
    ELSE IF r.err = "throw" THEN [status |-> "threw", v |-> Undef]
    ELSE IF r.err = "hang" THEN [status |-> "hang", v |-> Undef]
    ELSE [status |-> "ub", v |-> Undef]

\* p.eval(); once undefined behaviour has happened a further evaluation may
\* return anything
Evaluate ==
    /\ ops < MaxOps
    /\ result.status \notin {"crash", "hang"}
    /\ \E r \in {IF fault = "none" THEN eval(Cur)
                   ELSE [p |-> Cur, v |-> Undef, err |-> fault]} :
           Install(r.p, IF r.err \in {"none", "throw"} THEN "none" ELSE r.err,
                      "eval", NoArg, EvalResult(r),
                      IF trip.phase = 1
                      THEN [trip EXCEPT !.phase = 2, !.r = result']
                      ELSE IF trip.phase = 3 THEN [trip EXCEPT !.phase = 4]
                      ELSE NoTrip)


\* p.addVariable(aName, aValue)
AddVariable(aName, aValue) ==
    /\ CanCall
    /\ \E r \in {addVariable(Cur, aName, aValue)} :
           Install(r.p, r.fault, "addVariable",
                   [name |-> aName, v |-> aValue], NoResult, NoTrip)

\* p.removeVariable(aName)
RemoveVariable(aName) ==
    /\ CanCall
    /\ \E r \in {removeVariable(Cur, aName)} :
           Install(r.p, r.fault, "removeVariable",
                   [name |-> aName, v |-> Undef], NoResult, NoTrip)

\* p.addFunction(aName, new func::sum())
AddFunction(aName) ==
    /\ CanCall
    /\ \E r \in {addFunction(Cur, aName, "sum")} :
           Install(r.p, r.fault, "addFunction",
                   [name |-> aName, v |-> Undef], NoResult, NoTrip)

\* p.removeFunction(aName)
RemoveFunction(aName) ==
    /\ CanCall
    /\ \E r \in {removeFunction(Cur, aName)} :
           Install(r.p, r.fault, "removeFunction",
                   [name |-> aName, v |-> Undef], NoResult, NoTrip)

\* p.clear()
Clear ==
    /\ CanCall
    /\ \E r \in {clear(Cur)} :
           Install(r.p, r.fault, "clear", NoArg, NoResult, NoTrip)

\* p.reset()
Reset ==
    /\ CanCall
    /\ \E r \in {reset(Cur)} :
           Install(r.p, r.fault, "reset", NoArg, NoResult, NoTrip)

Next ==
    \/ \E s \in Sources : SetSource(s)
    \/ Evaluate
    \/ \E aName \in VarNames, aValue \in VarValues : AddVariable(aName, aValue)
    \/ RemoveVariable(<<"x">>)
    \/ AddFunction(<<"f">>)
    \/ RemoveFunction(<<"+">>)
    \/ Clear
    \/ Reset

Spec == Init /\ [][Next]_vars


(***************************************************************************)
(* Sources built from nested arithmetic forms over integer literals, each  *)
(* compiled and evaluated by a new parser.  A form is [op, lit, args]: a   *)
(* literal has op "lit", a form has its function's name as op.             *)
(***************************************************************************)
Lit(n) == [op |-> "lit", lit |-> n, args |-> <<>>]
Form(o, as) == [op |-> o, lit |-> 0, args |-> as]

FoldOps == {"+", "-", "*", "/"}
FoldLits == {Lit(0), Lit(2), Lit(0 - 3)}

\* the sequences over S of length 1 to n
SeqsUpTo(S, n) == UNION {[1..k -> S] : k \in 1..n}

\* forms of one or two literals, and the literals themselves
NestedForms ==
    {Form(o, <<a>>) : o \in FoldOps, a \in FoldLits}
        \cup {Form(o, <<a, b>>) : o \in FoldOps, a \in FoldLits, b \in FoldLits}
FoldAtoms == FoldLits \cup NestedForms

\* "(+ 1 2 3)", "(- 5 3 2)" and "(+ (+ 1 2) (+ 3 4 5) 6)"
FoldExamples ==
    { Form("+", <<Lit(1), Lit(2), Lit(3)>>),
      Form("-", <<Lit(5), Lit(3), Lit(2)>>),
      Form("+", <<Form("+", <<Lit(1), Lit(2)>>),
                  Form("+", <<Lit(3), Lit(4), Lit(5)>>), Lit(6)>>) }

FoldInputs ==
    {Form(o, as) : o \in FoldOps, as \in SeqsUpTo(FoldLits, MaxArgs)}
        \cup {Form(o, <<a>>) : o \in FoldOps, a \in FoldAtoms}
        \cup {Form(o, <<a, b>>) : o \in FoldOps, a \in FoldAtoms, b \in FoldAtoms}
        \cup FoldExamples

\* the decimal text of an integer
RECURSIVE utoa(_)
utoa(n) ==
    LET d == <<"0", "1", "2", "3", "4", "5", "6", "7", "8", "9">>[(n % 10) + 1]
    IN  IF n < 10 THEN <<d>> ELSE Append(utoa(n \div 10), d)

itoa(n) == IF n < 0 THEN <<"-">> \o utoa(0 - n) ELSE utoa(n)

\* the source text of a form
RECURSIVE Render(_)
RECURSIVE RenderArgs(_)
RenderArgs(as) ==
    IF as = <<>> THEN <<>>
    ELSE <<" ">> \o Render(Head(as)) \o RenderArgs(Tail(as))

Render(f) ==
    IF f.op = "lit" THEN itoa(f.lit)
    ELSE <<"(", f.op>> \o RenderArgs(f.args) \o <<")">>

InitFold == InitParser /\ input \in FoldInputs

FoldSetSource == lastOp = "init" /\ SetSource(Render(input))

FoldEvaluate == lastOp = "setSource" /\ Evaluate

NextFold == FoldSetSource \/ FoldEvaluate

SpecFold == InitFold /\ [][NextFold]_vars

(***************************************************************************)
(* Direct applications of the arithmetic functions to lists of scalars.    *)
(***************************************************************************)
ArithValues ==
    {Undef, MkBool(TRUE), MkBool(FALSE), MkInt(0), MkInt(2), MkInt(0 - 3),
     MkDouble(Frac(0, 1)), MkDouble(Frac(1, 2)), MkDouble(Frac(0 - 5, 2)),
     MkTime(0), MkTime(3)}

ArithInputs ==
    {[op |-> o, args |-> as] :
        o \in {"sum", "diff", "prod", "quot"},
        as \in SeqsUpTo(ArithValues, MaxArgs)}

\* the entry of an argument list that is a NULL pointer
NullArg == [tag |-> "Null", n |-> 0, d |-> 1]

\* f.eval(args) for a function object f of the kind op and an argument list
\* of plain values and NULL pointers
Apply(op, args) ==
    LET h == <<NewFunction(op)>> \o
             [i \in DOMAIN args |->
                 NewValue(IF args[i] = NullArg THEN Undef ELSE args[i])]
    IN  FcnEval(h, 1, [i \in DOMAIN args |->
                          IF args[i] = NullArg THEN NULL ELSE i + 1], {})

InitArith == InitParser /\ input \in ArithInputs

ApplyFunction ==
    /\ output.status = "none"
    /\ \E r \in {Apply(input.op, input.args)} :
           output' = [status |-> "value", v |-> ValueAssign(r.v)]
    /\ UNCHANGED <<src, heap, fcns, variables, consts, subs, root, fault,
                   lastOp, lastArg, result, pre, trip, ops, input, threads>>

NextArith == ApplyFunction

SpecArith == InitArith /\ [][NextArith]_vars

(***************************************************************************)
(* A source "(+ name literal)" that uses an identifier as an argument,     *)
(* compiled and evaluated on a parser whose variable table may have been   *)
(* given the name first.                                                   *)
(***************************************************************************)
RefNames == {<<"e">>, <<"p", "i">>, <<"x">>, <<"E">>}
RefLits == {<<"0", ".", "0">>, <<"1">>, <<"2", ".", "5">>, <<"-", "3">>}
RefValues == {MkInt(7), MkDouble(Frac(1, 2)), MkBool(TRUE)}

RefInputs == {[name |-> n, lit |-> l] : n \in RefNames, l \in RefLits}

RefSource(in) == <<"(", "+", " ">> \o in.name \o <<" ">> \o in.lit \o <<")">>

InitRef == InitParser /\ input \in RefInputs

RefAddVariable ==
    lastOp = "init" /\ \E aValue \in RefValues : AddVariable(input.name, aValue)

RefSetSource ==
    lastOp \in {"init", "addVariable"} /\ SetSource(RefSource(input))

RefEvaluate == lastOp = "setSource" /\ Evaluate

NextRef == RefAddVariable \/ RefSetSource \/ RefEvaluate

SpecRef == InitRef /\ [][NextRef]_vars

(***************************************************************************)
(* One source text given to a parser: an optional addVariable, setSource,  *)
(* eval, then addVariable and eval in turn.                                *)
(***************************************************************************)
\* the elements that may follow the name in a set form: literal tokens and
\* nested expressions
SetLiterals == {<<"1">>, <<"2", ".", "5">>}
SetNested ==
    {<<"(", "+", " ", "1", " ", "2", ")">>,
     <<"(", "*", " ", "2", " ", "3", ")">>}
SetElements == SetLiterals \cup SetNested

\* "(set x A B)"
SetTwo(a, b) ==
    <<"(", "s", "e", "t", " ", "x", " ">> \o a \o <<" ">> \o b \o <<")">>

SetTwoSources == {SetTwo(a, b) : a \in SetElements, b \in SetElements}

\* texts in which no '(' occurs
NoParenSources ==
    {<<>>, <<"x">>, <<"1", " ", "2">>, <<"+", " ", "1", " ", "2", ")">>}

\* "(set y (+ x 1))", "(set y (* x 2))", "(set y (+ 1 x))"
BindPlus ==
    <<"(", "s", "e", "t", " ", "y", " ", "(", "+", " ", "x", " ", "1", ")", ")">>
BindTimes ==
    <<"(", "s", "e", "t", " ", "y", " ", "(", "*", " ", "x", " ", "2", ")", ")">>
BindSecond ==
    <<"(", "s", "e", "t", " ", "y", " ", "(", "+", " ", "1", " ", "x", ")", ")">>

BindSources == {BindPlus, BindTimes, BindSecond}

\* "(max '2024-01-02 03:04:05')"
TimeMax ==
    <<"(", "m", "a", "x", " ", "'", "2", "0", "2", "4", "-", "0", "1", "-",
      "0", "2", " ", "0", "3", ":", "0", "4", ":", "0", "5", "'", ")">>
\* "(+ 1 '2024-01-02 03:04:05')"
TimeSum ==
    <<"(", "+", " ", "1", " ", "'", "2", "0", "2", "4", "-", "0", "1", "-",
      "0", "2", " ", "0", "3", ":", "0", "4", ":", "0", "5", "'", ")">>

TimeSources == {TimeMax, TimeSum}

\* "(+ (* 2 (set x 5)) 7)"
NestClose ==
    <<"(", "+", " ", "(", "*", " ", "2", " ", "(", "s", "e", "t", " ", "x",
      " ", "5", ")", ")", " ", "7", ")">>
\* "(+ (* 2 (set x 5) ) 7)"
NestSpace ==
    <<"(", "+", " ", "(", "*", " ", "2", " ", "(", "s", "e", "t", " ", "x",
      " ", "5", ")", " ", ")", " ", "7", ")">>

NestSources == {NestClose, NestSpace}

TextSources ==
    SetTwoSources \cup NoParenSources \cup BindSources \cup TimeSources
        \cup NestSources

TextValues == {MkInt(7), MkDouble(Frac(1, 2))}

InitText == InitParser /\ input \in TextSources

TextNames == {<<"x">>, <<"y">>}

\* the text is given once, to a parser on which at most one addVariable
\* has been called
TextSetSource ==
    /\ lastOp = "init" \/ (lastOp = "addVariable" /\ pre.lastOp = "init")
    /\ SetSource(input)

TextEvaluate ==
    /\ lastOp = "setSource" \/ (lastOp = "addVariable" /\ pre.lastOp = "eval")
    /\ Evaluate

TextAddVariable ==
    /\ lastOp \in {"init", "eval"}
    /\ \E aName \in TextNames, aValue \in TextValues :
           AddVariable(aName, aValue)

NextText == TextSetSource \/ TextEvaluate \/ TextAddVariable

SpecText == InitText /\ [][NextText]_vars

(***************************************************************************)
(* The operators of value applied to two scalars: a is the object the      *)
(* operator is called on and b its argument.                               *)
(***************************************************************************)
CompareOps == {"eq", "ne", "lt", "le", "gt", "ge"}
AssignOps == {"plus_eq", "minus_eq", "times_eq", "div_eq"}

ValueInputs ==
    {[op |-> o, a |-> x, b |-> y] :
        o \in CompareOps \cup AssignOps, x \in ArithValues, y \in ArithValues}

\* what a op b returns (a comparison) or leaves in a (a compound assignment)
Operator(op, a, b) ==
    IF op = "eq" THEN MkBool(value_eq(a, b))
    ELSE IF op = "ne" THEN MkBool(value_ne(a, b))
    ELSE IF op = "lt" THEN MkBool(value_lt(a, b))
    ELSE IF op = "le" THEN MkBool(value_le(a, b))
    ELSE IF op = "gt" THEN MkBool(value_gt(a, b))
    ELSE IF op = "ge" THEN MkBool(value_ge(a, b))
    ELSE IF op = "plus_eq" THEN value_plus_eq(a, b)
    ELSE IF op = "minus_eq" THEN value_minus_eq(a, b)
    ELSE IF op = "times_eq" THEN value_times_eq(a, b)
    ELSE value_div_eq(a, b)

InitValue == InitParser /\ input \in ValueInputs

ApplyOperator ==
    /\ output.status = "none"
    /\ output' = [status |-> "value",
                  v |-> Operator(input.op, input.a, input.b)]
    /\ UNCHANGED <<src, heap, fcns, variables, consts, subs, root, fault,
                   lastOp, lastArg, result, pre, trip, ops, input, threads>>

NextValue == ApplyOperator

SpecValue == InitValue /\ [][NextValue]_vars

(***************************************************************************)
(* hash() and operator== of values, variables and expressions.  A hash is  *)
(* kept as a sequence of integers that records what was hashed and in      *)
(* which order: boost::hash_value and boost::hash_combine are functions of *)
(* their inputs, so equal sequences stand for equal hashes.                *)
(***************************************************************************)
Alphabet ==
    <<"a", "b", "c", "d", "e", "f", "g", "h", "i", "j", "k", "l", "m", "n",
      "o", "p", "q", "r", "s", "t", "u", "v", "w", "x", "y", "z", "E", "(",
      ")", " ", "\n", "+", "-", "*", "/", "=", "!", "<", ">", ".", "'", ":",
      "0", "1", "2", "3", "4", "5", "6", "7", "8", "9">>

Ord(c) == CHOOSE i \in DOMAIN Alphabet : Alphabet[i] = c

\* boost::hash_value(std::string)
hash_string(s) == <<3, Len(s)>> \o [i \in DOMAIN s |-> Ord(s[i])]

\* boost::hash_value(T *)
hash_pointer(a) == <<4, a>>

\* boost::hash_combine(seed, v), h being the hash of v
hash_combine(seed, h) == <<2, Len(seed), Len(h)>> \o seed \o h

\* value::hash: 0 for an Undefined value, else the hash of the payload
value_hash(v) ==
    IF v.tag = "Undefined" THEN <<0, 0>>
    ELSE IF v.tag = "Double" THEN <<1, v.n, v.d>>
    ELSE <<0, v.n>>

\* variable::hash
variable_hash(x) == hash_combine(value_hash(x.val), hash_string(x.name))

\* the BOOST_FOREACH of expression::hash over the arguments
RECURSIVE HashArgs(_, _)
HashArgs(ans, args) ==
    IF args = <<>> THEN ans
    ELSE IF Head(args) = NULL THEN HashArgs(ans, Tail(args))
    ELSE HashArgs(hash_combine(ans, hash_pointer(Head(args))), Tail(args))

\* expression::hash
expression_hash(x) ==
    HashArgs(hash_combine(hash_combine(value_hash(x.val), hash_string(x.name)),
                          hash_pointer(x.fcn)),
             x.args)

\* x.hash(), which is virtual
NodeHash(x) ==
    IF x.kind = "variable" THEN variable_hash(x)
    ELSE IF x.kind = "expression" THEN expression_hash(x)
    ELSE value_hash(x.val)

\* variable::operator==(const variable &); same: the two are one object
variable_eq(a, b, same) == same \/ (value_eq(a.val, b.val) /\ a.name = b.name)

\* expression::operator==(const expression &)
expression_eq(a, b, same) ==
    \/ same
    \/ /\ value_eq(a.val, b.val)
       /\ a.name = b.name
       /\ a.fcn = b.fcn
       /\ a.args = b.args

\* value::operator==(const value &), and the operator==(const value &) of
\* variable and of expression, which compare the value parts only
scalar_eq(a, b, same) == same \/ value_eq(a.val, b.val)

\* a == b for two objects of the given kinds
NodeEq(a, b, same) ==
    IF a.kind = "variable" /\ b.kind = "variable" THEN variable_eq(a, b, same)
    ELSE IF a.kind = "expression" /\ b.kind = "expression"
        THEN expression_eq(a, b, same)
    ELSE scalar_eq(a, b, same)

HashScalars == {Undef, MkBool(TRUE), MkInt(0), MkInt(5), MkDouble(Frac(1, 2))}

HashNodes ==
    {NewValue(v) : v \in HashScalars}
        \cup {[NewVariable(n, NULL) EXCEPT !.val = v] :
                  n \in VarNames, v \in HashScalars}
        \cup {[NewExpression EXCEPT !.val = v, !.fcn = f, !.args = as] :
                  v \in {Undef, MkInt(5)}, f \in {NULL, 1},
                  as \in {<<>>, <<2>>, <<2, NULL>>, <<3>>}}

HashInputs ==
    {[a |-> x, b |-> y, same |-> FALSE] : x \in HashNodes, y \in HashNodes}
        \cup {[a |-> x, b |-> x, same |-> TRUE] : x \in HashNodes}

InitHash == InitParser /\ input \in HashInputs

\* a == b
CompareNodes ==
    /\ output.status = "none"
    /\ output' = [status |-> "value",
                  v |-> MkBool(NodeEq(input.a, input.b, input.same))]
    /\ UNCHANGED <<src, heap, fcns, variables, consts, subs, root, fault,
                   lastOp, lastArg, result, pre, trip, ops, input, threads>>

NextHash == CompareNodes

SpecHash == InitHash /\ [][NextHash]_vars

(***************************************************************************)
(* hash() and operator== of parsers.  Two parsers are built, each by its   *)
(* own calls, and compared; every object a parser allocates is its own, so *)
(* no function object is in the tables of two parsers.                     *)
(***************************************************************************)
\* the elements of S in an order that depends on S only
RECURSIVE SeqOf(_)
SeqOf(S) ==
    IF S = {} THEN <<>>
    ELSE With(CHOOSE x \in S : TRUE, LAMBDA a : <<a>> \o SeqOf(S \ {a}))

\* function::hash
function_hash == <<0, 0>>

\* the loop of parser::hash over _const
RECURSIVE HashConsts(_, _, _)
HashConsts(ans, h, cs) ==
    IF cs = <<>> THEN ans
    ELSE IF Head(cs) = NULL THEN HashConsts(ans, h, Tail(cs))
    ELSE HashConsts(hash_combine(ans, NodeHash(h[Head(cs)])), h, Tail(cs))

\* the loop of parser::hash over _vars
RECURSIVE HashVars(_, _, _, _)
HashVars(ans, h, table, names) ==
    IF names = <<>> THEN ans
    ELSE IF table[Head(names)] = NULL THEN HashVars(ans, h, table, Tail(names))
    ELSE HashVars(hash_combine(hash_combine(ans, hash_string(Head(names))),
                               NodeHash(h[table[Head(names)]])),
                  h, table, Tail(names))

\* the loop of parser::hash over _fcns
RECURSIVE HashFcns(_, _, _)
HashFcns(ans, table, names) ==
    IF names = <<>> THEN ans
    ELSE IF table[Head(names)] = NULL THEN HashFcns(ans, table, Tail(names))
    ELSE HashFcns(hash_combine(hash_combine(ans, hash_string(Head(names))),
                               function_hash),
                  table, Tail(names))

\* parser::hash; two tables with the same keys are walked in the same order
parser_hash(p) ==
    HashFcns(HashVars(HashConsts(hash_string(p.src), p.h, p.consts),
                      p.h, p.vars, SeqOf(DOMAIN p.vars)),
             p.fcns, SeqOf(DOMAIN p.fcns))

\* function::operator==: identity; same: p and q are one parser
function_eq(a, b, same) == same /\ a = b

\* the comparison of two table or pool entries, either of which may be NULL
EntryEq(a, b, eq) ==
    IF a = NULL \/ b = NULL THEN a = b ELSE eq

\* parser::operator==
parser_eq(p, q, same) ==
    \/ same
    \/ /\ p.src = q.src
       /\ Len(p.consts) = Len(q.consts)
       /\ \A i \in DOMAIN p.consts :
              EntryEq(p.consts[i], q.consts[i],
                      value_eq(p.h[p.consts[i]].val, q.h[q.consts[i]].val))
       /\ Cardinality(DOMAIN p.vars) = Cardinality(DOMAIN q.vars)
       /\ \A n \in DOMAIN p.vars :
              /\ n \in DOMAIN q.vars
              /\ EntryEq(p.vars[n], q.vars[n],
                         value_eq(p.h[p.vars[n]].val, q.h[q.vars[n]].val))
       /\ Cardinality(DOMAIN p.fcns) = Cardinality(DOMAIN q.fcns)
       /\ \A n \in DOMAIN p.fcns :
              /\ n \in DOMAIN q.fcns
              /\ EntryEq(p.fcns[n], q.fcns[n],
                         function_eq(p.fcns[n], q.fcns[n], same))

\* the calls that build one parser: reset or clear, an optional
\* addVariable("x", add), setSource(s) and an optional eval
PairSources == {<<>>, SrcUse, SrcSet}
PairAdds == {NoConst, MkInt(7), MkInt(2)}

PairConfigs ==
    {[prep |-> r, add |-> v, s |-> t, ev |-> e] :
        r \in {"reset", "clear"}, v \in PairAdds, t \in PairSources,
        e \in BOOLEAN}

Build(c) ==
    LET p0 == IF c.prep = "reset" THEN NewParser ELSE clear(NewParser).p
        p1 == IF c.add = NoConst THEN p0 ELSE addVariable(p0, <<"x">>, c.add).p
        p2 == setSource(p1, c.s).p
    IN  IF c.ev THEN eval(p2).p ELSE p2

PairInputs ==
    {[a |-> x, b |-> y, same |-> FALSE] : x \in PairConfigs, y \in PairConfigs}
        \cup {[a |-> x, b |-> x, same |-> TRUE] : x \in PairConfigs}

InitPair == InitParser /\ input \in PairInputs

\* a == b for the two parsers
CompareParsers ==
    /\ output.status = "none"
    /\ output' = [status |-> "value",
                  v |-> MkBool(parser_eq(Build(input.a), Build(input.b),
                                         input.same))]
    /\ UNCHANGED <<src, heap, fcns, variables, consts, subs, root, fault,
                   lastOp, lastArg, result, pre, trip, ops, input, threads>>

NextPair == CompareParsers

SpecPair == InitPair /\ [][NextPair]_vars

(***************************************************************************)
(* Two threads on one scalar node.  The node is its _type field and its    *)
(* payload union; the payload is kept with the tag it was written under.   *)
(* The writer assigns the scalar input.to, either with                     *)
(* operator=(const value &), which takes no lock, or with set(raw), which  *)
(* holds the node's spinlock.  The reader reads the tag and then the       *)
(* payload that the tag selects: under the node's lock in evalAs*, in      *)
(* operator==(const value &) and in a compound assignment on the node,     *)
(* and with no lock on the node when the node is the source operand        *)
(* anOther of a compound assignment.                                       *)
(***************************************************************************)
ThreadScalars ==
    {Undef, MkBool(TRUE), MkInt(2), MkDouble(Frac(1, 2)), MkTime(3)}

WriterOps == {"assign", "set"}
ReaderOps == {"evalAs", "compare", "plus_eq", "source"}

ThreadInputs ==
    {in \in [w : WriterOps, r : ReaderOps, from : ThreadScalars,
             to : ThreadScalars] :
        in.w = "set" => ~isUndefined(in.to)}

InitThreads ==
    /\ InitObjects
    /\ input \in ThreadInputs
    /\ threads = [type |-> input.from.tag, payload |-> input.from,
                  lock |-> "free", wpc |-> "start", rpc |-> "start",
                  seenType |-> "none", seenPayload |-> NoConst]

ParserUnchanged ==
    UNCHANGED <<src, heap, fcns, variables, consts, subs, root, fault, lastOp,
                lastArg, result, pre, trip, ops, input, output>>

\* scoped_lock lock(_mutex) in value::set
WriterLock ==
    /\ threads.wpc = "start" /\ input.w = "set" /\ threads.lock = "free"
    /\ threads' = [threads EXCEPT !.lock = "writer", !.wpc = "locked"]
    /\ ParserUnchanged

\* _type = ...
WriterType ==
    /\ \/ threads.wpc = "start" /\ input.w = "assign"
       \/ threads.wpc = "locked"
    /\ threads' = [threads EXCEPT !.type = input.to.tag, !.wpc = "typed"]
    /\ ParserUnchanged

\* the assignment to the member of the union
WriterPayload ==
    /\ threads.wpc = "typed"
    /\ threads' = [threads EXCEPT
                       !.payload = input.to,
                       !.wpc = IF input.w = "set" THEN "written" ELSE "done"]
    /\ ParserUnchanged

\* the end of the scope of the lock
WriterUnlock ==
    /\ threads.wpc = "written"
    /\ threads' = [threads EXCEPT !.lock = "free", !.wpc = "done"]
    /\ ParserUnchanged

\* scoped_lock lock(_mutex) in evalAs*, operator== and operator+=(raw)
ReaderLock ==
    /\ threads.rpc = "start" /\ input.r # "source" /\ threads.lock = "free"
    /\ threads' = [threads EXCEPT !.lock = "reader", !.rpc = "locked"]
    /\ ParserUnchanged

\* switch (_type), or switch (anOther._type) for the source operand
ReaderType ==
    /\ \/ threads.rpc = "start" /\ input.r = "source"
       \/ threads.rpc = "locked"
    /\ threads' = [threads EXCEPT !.seenType = threads.type, !.rpc = "typed"]
    /\ ParserUnchanged

\* the read of the member of the union that the tag selects
ReaderPayload ==
    /\ threads.rpc = "typed"
    /\ threads' = [threads EXCEPT
                       !.seenPayload = threads.payload,
                       !.rpc = IF input.r = "source" THEN "done" ELSE "read"]
    /\ ParserUnchanged

ReaderUnlock ==
    /\ threads.rpc = "read"
    /\ threads' = [threads EXCEPT !.lock = "free", !.rpc = "done"]
    /\ ParserUnchanged

NextThreads ==
    \/ WriterLock \/ WriterType \/ WriterPayload \/ WriterUnlock
    \/ ReaderLock \/ ReaderType \/ ReaderPayload \/ ReaderUnlock

SpecThreads == InitThreads /\ [][NextThreads]_vars

(***************************************************************************)
(* Two threads on one variable of the table.  The evaluating thread is in  *)
(* eval() of the variable: it takes the variable's spinlock, and           *)
(* variable::eval_nl calls eval() on the bound expression and stores the   *)
(* result in the variable's scalar.  The other thread is in                *)
(* parser::addVariable(name, value) for the variable's name: under the     *)
(* table's lock it runs variable::operator=(const value &), which copies   *)
(* the scalar, deletes the bound expression and sets _expr to NULL, and     *)
(* takes no lock of the variable.  threads holds the variable: its scalar, *)
(* its _expr (bound or NULL), whether the expression object is alive, the   *)
(* holder of its lock, where each thread is, the expression the            *)
(* evaluating thread is in, and whether that thread touched a destroyed    *)
(* object.                                                                 *)
(***************************************************************************)
BoundInputs ==
    [old : ThreadScalars, new : ThreadScalars \ {Undef},
     r : ThreadScalars, bound : BOOLEAN]

InitBound ==
    /\ InitObjects
    /\ input \in BoundInputs
    /\ threads = [val |-> input.old, expr |-> input.bound,
                  exprAlive |-> input.bound, lock |-> "free",
                  epc |-> "start", upc |-> "start", inExpr |-> FALSE,
                  uaf |-> FALSE]

\* scoped_lock lock(_mutex) in eval() of the variable
EvalLock ==
    /\ threads.epc = "start" /\ threads.lock = "free"
    /\ threads' = [threads EXCEPT !.lock = "eval", !.epc = "locked"]
    /\ ParserUnchanged

\* if (_expr != NULL) ... _expr->eval(): the call is entered with the
\* pointer read here
EvalEnter ==
    /\ threads.epc = "locked"
    /\ threads' = [threads EXCEPT
                       !.inExpr = threads.expr,
                       !.epc = IF threads.expr THEN "inExpr" ELSE "stored"]
    /\ ParserUnchanged

\* eval() of the expression: its lock, its function, its arguments; on a
\* destroyed object the behaviour is undefined and the call may still
\* return, with any scalar, or end the process
EvalExpr ==
    /\ threads.epc = "inExpr"
    /\ IF threads.exprAlive
       THEN threads' = [threads EXCEPT !.epc = "evaluated"]
       ELSE \E e \in {"evaluated", "crashed"} :
                threads' = [threads EXCEPT !.epc = e, !.uaf = TRUE]
    /\ ParserUnchanged

\* set_nl(...) with what the expression returned
EvalStore ==
    /\ threads.epc = "evaluated"
    /\ \E v \in IF threads.uaf THEN UBScalars ELSE {input.r} :
           threads' = [threads EXCEPT !.val = v, !.inExpr = FALSE,
                                      !.epc = "stored"]
    /\ ParserUnchanged

\* the end of the scope of the variable's lock
EvalUnlock ==
    /\ threads.epc = "stored"
    /\ threads' = [threads EXCEPT !.lock = "free", !.epc = "done"]
    /\ ParserUnchanged

\* variable *old = _vars[aName], under _vars_mutex
UpdateFind ==
    /\ threads.upc = "start"
    /\ threads' = [threads EXCEPT !.upc = "found"]
    /\ ParserUnchanged

\* value::operator=(anOther) in variable::operator=(const value &)
UpdateAssign ==
    /\ threads.upc = "found"
    /\ threads' = [threads EXCEPT !.val = input.new, !.upc = "assigned"]
    /\ ParserUnchanged

\* if (_expr != NULL) { delete _expr;
UpdateDelete ==
    /\ threads.upc = "assigned"
    /\ threads' = [threads EXCEPT
                       !.exprAlive = FALSE,
                       !.upc = IF threads.expr THEN "deleted" ELSE "done"]
    /\ ParserUnchanged

\* _expr = NULL; }
UpdateClear ==
    /\ threads.upc = "deleted"
    /\ threads' = [threads EXCEPT !.expr = FALSE, !.upc = "done"]
    /\ ParserUnchanged

NextBound ==
    \/ EvalLock \/ EvalEnter \/ EvalExpr \/ EvalStore \/ EvalUnlock
    \/ UpdateFind \/ UpdateAssign \/ UpdateDelete \/ UpdateClear

SpecBound == InitBound /\ [][NextBound]_vars

(***************************************************************************)
(* max, min, the comparisons and the logical functions applied directly to *)
(* an argument list of scalars and NULL pointers.                          *)
(***************************************************************************)
FcnValues ==
    {NullArg, Undef, MkBool(TRUE), MkBool(FALSE), MkInt(0), MkInt(2),
     MkInt(0 - 3), MkDouble(Frac(0, 1)), MkDouble(Frac(2, 1)),
     MkDouble(Frac(0 - 5, 2)), MkTime(0), MkTime(3)}

FcnInputs ==
    {[op |-> o, args |-> as] :
        o \in {"max", "min"} \cup CompOps \cup BinOps,
        as \in SeqsUpTo(FcnValues, MaxArgs)}

InitFcn == InitParser /\ input \in FcnInputs

NextFcn == ApplyFunction

SpecFcn == InitFcn /\ [][NextFcn]_vars

(***************************************************************************)
(* Properties of the arithmetic functions.                                 *)
(***************************************************************************)
\* integer arithmetic of one operator
IntOp(o, a, b) ==
    IF o = "+" THEN a + b
    ELSE IF o = "-" THEN a - b
    ELSE IF o = "*" THEN a * b
    ELSE TDiv(a, b)

\* the left fold of operator o over the integers rest, seeded with acc;
\* not ok when a divisor is zero
RECURSIVE FoldLeft(_, _, _)
FoldLeft(o, acc, rest) ==
    IF rest = <<>> THEN [ok |-> TRUE, n |-> acc]
    ELSE IF o = "/" /\ Head(rest) = 0 THEN [ok |-> FALSE, n |-> 0]
    ELSE FoldLeft(o, IntOp(o, acc, Head(rest)), Tail(rest))

\* the integer a form stands for: every argument recursively, then the left
\* fold; with negate, a "-" form of one argument is the negation of it
RECURSIVE FoldValue(_, _)
FoldValue(f, negate) ==
    IF f.op = "lit" THEN [ok |-> TRUE, n |-> f.lit]
    ELSE LET vs == [i \in DOMAIN f.args |-> FoldValue(f.args[i], negate)]
         IN  IF \E i \in DOMAIN vs : ~vs[i].ok THEN [ok |-> FALSE, n |-> 0]
             ELSE IF negate /\ f.op = "-" /\ Len(vs) = 1
                 THEN [ok |-> TRUE, n |-> 0 - vs[1].n]
             ELSE FoldLeft(f.op, vs[1].n, [i \in 1..(Len(vs) - 1) |-> vs[i + 1].n])

\* C1 as stated: for a source of nested +, -, *, / forms over integer
\* literals with no zero divisor, setSource and eval return the Int that
\* folding each form left to right, seeded with its first argument, gives.
C1_FoldAsStated ==
    (lastOp = "eval" /\ FoldValue(input, FALSE).ok)
        => result = [status |-> "value", v |-> MkInt(FoldValue(input, FALSE).n)]

\* C1: for a source of nested +, -, *, / forms over integer literals with no
\* zero divisor, setSource and eval return the Int that folding each form
\* left to right, seeded with its first argument, gives, a "-" form of a
\* single argument being the negation of that argument.
C1_FoldLeft ==
    (lastOp = "eval" /\ FoldValue(input, TRUE).ok)
        => result = [status |-> "value", v |-> MkInt(FoldValue(input, TRUE).n)]

\* "(+ (+ 1 2) (+ 3 4 5) 6)" has been evaluated to Int 21
C1_Witness ==
    /\ lastOp = "eval"
    /\ input = Form("+", <<Form("+", <<Lit(1), Lit(2)>>),
                           Form("+", <<Lit(3), Lit(4), Lit(5)>>), Lit(6)>>)
    /\ result = [status |-> "value", v |-> MkInt(21)]

\* a later argument that a division turns into Undefined: a defined zero,
\* unless it is a Bool dividing a Bool
ZeroDivisor(args) ==
    \E i \in 2..Len(args) :
        /\ ~isUndefined(args[i])
        /\ args[i].n = 0
        /\ ~(args[1].tag = "Bool" /\ args[i].tag = "Bool")

\* the tag of the first defined argument, Undefined when there is none
RECURSIVE FirstDefinedTag(_)
FirstDefinedTag(args) ==
    IF args = <<>> THEN "Undefined"
    ELSE IF ~isUndefined(Head(args)) THEN Head(args).tag
    ELSE FirstDefinedTag(Tail(args))

\* C2 as stated: the tag of the result of +, -, *, / on [a, b, c, ...] is
\* the tag of the first argument a (Undefined when all are Undefined), for
\* every combination of tags and values.
C2_FirstTagAsStated ==
    output.status = "value" => output.v.tag = input.args[1].tag

\* C2: when the first argument a is defined the result has a's tag, except
\* that "/" gives Undefined when a later defined argument is zero (and not a
\* Bool dividing a Bool); when a is Undefined, + and - give the tag of the
\* first defined argument (Undefined when there is none) and * and / give
\* Undefined.
C2_FirstTag ==
    output.status = "value" =>
        output.v.tag =
            IF isUndefined(input.args[1]) THEN
                IF input.op \in {"sum", "diff"} THEN FirstDefinedTag(input.args)
                ELSE "Undefined"
            ELSE IF input.op = "quot" /\ ZeroDivisor(input.args) THEN "Undefined"
            ELSE input.args[1].tag

\* an Int divided by a Double and a Timestamp has been computed and is an Int
C2_Witness ==
    /\ output.status = "value"
    /\ input.op = "quot"
    /\ input.args = <<MkInt(0 - 3), MkDouble(Frac(1, 2)), MkTime(3)>>
    /\ output.v.tag = "Int"

(***************************************************************************)
(* Properties of the parser.                                               *)
(***************************************************************************)
\* every variable and function of the tables of parser p is a live node
TablesLive(p) ==
    /\ \A n \in DOMAIN p.vars : p.h[p.vars[n]].alive
    /\ \A n \in DOMAIN p.fcns : p.h[p.fcns[n]].alive

\* the nodes referenced from the tree at address a: the arguments of an
\* expression and the bound expression of a variable, as far as they are live
RECURSIVE Tree(_, _, _)
Tree(h, as, seen) ==
    IF as = {} THEN seen
    ELSE LET a == CHOOSE x \in as : TRUE
             next == IF ~h[a].alive THEN {}
                     ELSE {h[a].args[i] : i \in DOMAIN h[a].args}
                              \cup {h[a].expr}
         IN  Tree(h, (as \cup next) \ (seen \cup {a, NULL}), seen \cup {a})

RootTree == IF root = NULL THEN {} ELSE Tree(heap, {root}, {})

\* the owners of the node at address a
Owners(a) ==
    {o \in {"root", "vars", "consts", "subs"} :
        \/ o = "root" /\ root = a
        \/ o = "vars" /\ \E n \in DOMAIN variables : variables[n] = a
        \/ o = "consts" /\ \E i \in DOMAIN consts : consts[i] = a
        \/ o = "subs" /\ \E i \in DOMAIN subs : subs[i] = a}

DefaultNames == {DefaultFunctions[i].name : i \in DOMAIN DefaultFunctions}

\* C3: when the source holds several top-level forms the last one becomes
\* the compiled root and evaluate returns its value: "(set x (+ 1 2 3))"
\* followed by "(* x 3 (* x 2))" compiles to the product and gives Int 108.
C3_LastFormIsRoot ==
    (lastOp = "eval" /\ src = SrcTwo /\ result.status = "value")
        => /\ heap[root].kind = "expression"
           /\ heap[heap[root].fcn].op = "prod"
           /\ result.v = MkInt(108)

\* C4: setSource discards only the compiled root: every variable and
\* function that was in the tables before the call is still there and is
\* still a live node.
C4_SetSourceKeepsTables ==
    (lastOp = "setSource" /\ TablesLive(pre.p))
        => /\ variables = pre.p.vars
           /\ fcns = pre.p.fcns
           /\ TablesLive(Cur)

\* C5: when a compilation fails part-way the variable table, the function
\* table, the constant pool and the sub-expression pool are what they were
\* before the evaluate call, and no root is installed.
C5_FailedCompileRestores ==
    (lastOp = "eval" /\ result.status = "threw")
        => /\ root = NULL
           /\ variables = pre.p.vars
           /\ fcns = pre.p.fcns
           /\ consts = pre.p.consts
           /\ subs = pre.p.subs

\* C6: add_variable(name, v) for a name already in the variable table keeps
\* the same variable node, and the node then holds v for the next
\* evaluation of a compiled expression that references it.
C6_AddVariableKeepsNode ==
    (lastOp = "addVariable" /\ lastArg.name \in DOMAIN pre.p.vars)
        => /\ variables = pre.p.vars
           /\ fault = "none"
           /\ heap[variables[lastArg.name]].alive
           /\ heap[variables[lastArg.name]].expr = NULL
           /\ heap[variables[lastArg.name]].val = lastArg.v

\* C7: two consecutive evaluate calls, with nothing changed in between,
\* return equal scalars.
C7_EvaluateTwice ==
    (lastOp = "eval" /\ pre.lastOp = "eval"
        /\ result.status \notin {"threw", "hang", "crash"}
        /\ pre.result.status \notin {"threw", "hang", "crash"})
        => result.v = pre.result.v

\* C8: set_source(s); evaluate(); set_source(s); evaluate() returns the
\* same scalar from both evaluate calls, for every source s.
C8_RecompileSameResult ==
    trip.phase = 4 => result = trip.r

\* C9: after reset the function table holds exactly the 15 default names,
\* the variable table exactly e and pi, and the source, both pools and the
\* root are empty; after clear the tables are empty too.
C9_ResetAndClear ==
    /\ lastOp = "reset"
        => /\ DOMAIN fcns = DefaultNames
           /\ DOMAIN variables = {<<"e">>, <<"p", "i">>}
           /\ src = <<>> /\ consts = <<>> /\ subs = <<>> /\ root = NULL
    /\ lastOp = "clear"
        => /\ DOMAIN fcns = {}
           /\ DOMAIN variables = {}
           /\ src = <<>> /\ consts = <<>> /\ subs = <<>> /\ root = NULL

\* C10: every node referenced from the compiled root tree has exactly one
\* owner among the root slot, the variable table, the constant pool and the
\* sub-expression pool, and setSource, clear and reset destroy no node twice
\* and leave no owner holding a destroyed node.
C10_SingleOwner ==
    /\ fault = "none" => \A a \in RootTree : Cardinality(Owners(a)) = 1
    /\ lastOp \in {"setSource", "clear", "reset"}
        => fault # "double_free" /\ (TablesLive(pre.p) => TablesLive(Cur))

(***************************************************************************)
(* The logical functions, the comparisons and the extrema.                 *)
(***************************************************************************)
\* the positions of an argument list that hold a defined scalar
Defined(args) ==
    {i \in DOMAIN args : args[i] # NullArg /\ ~isUndefined(args[i])}

\* C11: "or" over a list with a defined argument is Bool true when some
\* defined argument is truthy and Bool false when every defined argument is
\* falsy; it is Undefined only when no argument is defined.
C11_OrAsStated ==
    (output.status = "value" /\ input.op = "or")
        => output.v = IF Defined(input.args) = {} THEN Undef
                      ELSE MkBool(\E i \in Defined(input.args) :
                                      input.args[i].n # 0)

\* b read in the type of a has the value of a
SameValue(a, b) == StoreNum(a, Payload(b)) = a

\* the defined arguments after the first entry of the list
Later(args) == {i \in Defined(args) : i > 1}

\* C12: with a defined first argument and a defined later one, "==" is true
\* iff every later defined argument equals the first and "!=" is true iff
\* no later defined argument equals the first, an argument of another
\* numeric tag being compared by value after coercion to the first's type.
C12_EqualityAsStated ==
    (/\ output.status = "value"
     /\ input.op \in {"eq", "ne"}
     /\ 1 \in Defined(input.args)
     /\ Later(input.args) # {})
        => output.v =
               IF input.op = "eq"
               THEN MkBool(\A i \in Later(input.args) :
                               SameValue(input.args[1], input.args[i]))
               ELSE MkBool(\A i \in Later(input.args) :
                               ~SameValue(input.args[1], input.args[i]))

\* C15: max (min) returns the largest (smallest) of the defined arguments,
\* NULL pointers and Undefined values being skipped at every position, the
\* first included; it is Undefined only when no argument is defined.
C15_ExtremumAsStated ==
    (output.status = "value" /\ input.op \in {"max", "min"})
        => IF Defined(input.args) = {} THEN output.v = Undef
           ELSE \E i \in Defined(input.args) :
                    /\ output.v = input.args[i]
                    /\ \A j \in Defined(input.args) :
                           IF input.op = "max"
                           THEN ~value_gt(input.args[j], output.v)
                           ELSE ~value_lt(input.args[j], output.v)

\* C16: a comparison returns Undefined when its argument list holds no
\* defined argument, and a Bool when it holds at least one.
C16_ComparisonIsBool ==
    (output.status = "value" /\ input.op \in CompOps)
        => IF Defined(input.args) = {} THEN output.v = Undef
           ELSE output.v.tag = "Bool"

(***************************************************************************)
(* The operators of value.                                                 *)
(***************************************************************************)
\* C13: with an Undefined scalar on either side each of <, <=, > and >= is
\* false, and a == u for an Undefined u is true only when a is Undefined.
C13_UndefinedOrderings ==
    (/\ output.status = "value"
     /\ isUndefined(input.a) \/ isUndefined(input.b))
        => /\ input.op \in {"lt", "le", "gt", "ge"} => output.v = MkBool(FALSE)
           /\ input.op = "eq"
                  => output.v = MkBool(isUndefined(input.a) /\ isUndefined(input.b))

\* C14: +=, -=, *= and /= with an Undefined source leave a target of a
\* defined tag as it was, tag and value.
C14_UndefinedSource ==
    (/\ output.status = "value"
     /\ input.op \in AssignOps
     /\ ~isUndefined(input.a)
     /\ isUndefined(input.b))
        => output.v = input.a

(***************************************************************************)
(* Identifiers in a source.                                                *)
(***************************************************************************)
\* C18: an identifier that names a variable of the variable table, e and pi
\* included, is compiled as an argument to a reference to that variable's
\* node, so "(+ name literal)" evaluates with the variable's current value.
C18_IdentifierIsVariable ==
    (/\ lastOp = "eval"
     /\ result.status = "value"
     /\ input.name \in DOMAIN pre.p.vars)
        => /\ heap[root].kind = "expression"
           /\ heap[root].args[1] = variables[input.name]
           /\ result.v =
                  value_plus_eq(EvalNode(pre.p.h, pre.p.vars[input.name], {}).v,
                                parseConst(input.lit))

(***************************************************************************)
(* Equality and hashing.                                                   *)
(***************************************************************************)
\* C17: for two objects a and b among scalars, variables and expressions,
\* a variable or expression compared with a plain scalar included, a == b
\* implies hash(a) = hash(b).
C17_EqualImpliesSameHash ==
    (output.status = "value" /\ output.v = MkBool(TRUE))
        => NodeHash(input.a) = NodeHash(input.b)

\* sources match and the constant pools, the variable tables and the function
\* tables are equal element by element: scalars by value, tables by name
SameContents(p, q) ==
    /\ p.src = q.src
    /\ Len(p.consts) = Len(q.consts)
    /\ \A i \in DOMAIN p.consts :
           value_eq(p.h[p.consts[i]].val, q.h[q.consts[i]].val)
    /\ DOMAIN p.vars = DOMAIN q.vars
    /\ \A n \in DOMAIN p.vars :
           value_eq(p.h[p.vars[n]].val, q.h[q.vars[n]].val)
    /\ DOMAIN p.fcns = DOMAIN q.fcns

\* C19: two parsers compare equal whenever their sources match and their
\* pools and tables are equal element by element, two distinct parsers that
\* were each reset and given the same source in particular; and parsers that
\* compare equal have equal hashes.
C19_ParserEquality ==
    output.status = "value" =>
        /\ SameContents(Build(input.a), Build(input.b))
               => output.v = MkBool(TRUE)
        /\ output.v = MkBool(TRUE)
               => parser_hash(Build(input.a)) = parser_hash(Build(input.b))

(***************************************************************************)
(* Threads on one node.                                                    *)
(***************************************************************************)
\* C20: whatever the interleaving of an assignment to a node with a read, a
\* comparison or a compound assignment on it, or with a compound assignment
\* that has the node as its source, no thread sees a tag together with a
\* payload that was written under another tag.
C20_NoTornRead ==
    threads.seenPayload # NoConst
        => threads.seenType = threads.seenPayload.tag

(***************************************************************************)
(* Locks held during an evaluation.                                        *)
(***************************************************************************)
\* C21: during an evaluation that returns, the thread never holds more than
\* the lock of one expression and the lock of the one argument being read.
C21_OneNestingLevel ==
    (lastOp = "eval" /\ result.status = "value" /\ root # NULL)
        => HeldLocks(heap, root, {}) <= 2

(***************************************************************************)
(* Termination of an evaluation.                                           *)
(***************************************************************************)
\* C22: an evaluation of a source that compiled returns a scalar; it never
\* waits for a node lock that it holds itself.
C22_EvaluateReturns ==
    (lastOp = "eval" /\ root # NULL) => result.status = "value"

(***************************************************************************)
(* Source texts.                                                           *)
(***************************************************************************)
\* C23: a set form with two value-producing elements after the name is a
\* syntax error, whichever of the two is a literal or a nested expression.
C23_SetWithTwoValuesThrows ==
    (input \in SetTwoSources /\ lastOp = "eval" /\ pre.lastOp = "setSource")
        => result.status = "threw"

\* C24: eval on a source in which no '(' occurs fails with a runtime error
\* and returns no scalar to the caller.
C24_NoParenThrows ==
    (input \in NoParenSources /\ lastOp = "eval") => result.status = "threw"

(***************************************************************************)
(* An Int target and a Double source.                                      *)
(***************************************************************************)
\* the integer operation of a compound assignment on the integers a and b
IntAssign(op, a, b) ==
    IF op = "plus_eq" THEN MkInt(a + b)
    ELSE IF op = "minus_eq" THEN MkInt(a - b)
    ELSE IF op = "times_eq" THEN MkInt(a * b)
    ELSE IF b = 0 THEN Undef
    ELSE MkInt(TDiv(a, b))

\* C25: with an Int target and a Double source, +=, -=, *= and /= give the
\* Int that the integer operation gives on the source truncated to an
\* integer, and /= clears the target when the source truncates to 0.
C25_IntTargetDoubleSource ==
    (/\ output.status = "value"
     /\ input.op \in AssignOps
     /\ input.a.tag = "Int"
     /\ input.b.tag = "Double")
        => output.v = IntAssign(input.op, input.a.n, FTrunc(Payload(input.b)))

(***************************************************************************)
(* A variable bound to an expression.                                      *)
(***************************************************************************)
\* what the expression bound to y gives when x holds xv
BindExpect(s, xv) ==
    IF s = BindPlus THEN value_plus_eq(xv, MkInt(1))
    ELSE IF s = BindTimes THEN value_times_eq(xv, MkInt(2))
    ELSE value_plus_eq(MkInt(1), xv)

\* C26: y set to an expression over x is bound to the expression: the
\* evaluation that follows addVariable(x, v) returns what the expression
\* gives for the new value of x.
C26_BoundExpression ==
    (/\ input \in BindSources
     /\ lastOp = "eval"
     /\ pre.lastOp = "addVariable"
     /\ pre.p.h[pre.p.vars[<<"y">>]].expr # NULL)
        => result =
               [status |-> "value",
                v |-> BindExpect(input,
                         EvalNode(pre.p.h, pre.p.vars[<<"x">>], {}).v)]

C26_Witness ==
    /\ input = BindPlus
    /\ lastOp = "eval"
    /\ pre.lastOp = "addVariable"
    /\ pre.p.h[pre.p.vars[<<"y">>]].val = MkInt(1)
    /\ result.v = MkInt(8)

(***************************************************************************)
(* A timestamp literal with a time of day.                                 *)
(***************************************************************************)
\* the number of literals written in a source of TimeSources
TimeLiterals(s) == IF s = TimeMax THEN 1 ELSE 2

\* C27: a quoted 'YYYY-MM-DD HH:MM:SS' literal is one Timestamp constant: it
\* adds one node to the constant pool and one argument to its expression.
C27_TimestampIsOneConstant ==
    (input \in TimeSources /\ lastOp = "eval" /\ pre.lastOp = "setSource")
        => /\ root # NULL
           /\ Len(consts) = TimeLiterals(input)
           /\ Len(heap[root].args) = TimeLiterals(input)
           /\ heap[heap[root].args[TimeLiterals(input)]].val.tag = "Time"

(***************************************************************************)
(* A set form nested in another form.                                      *)
(***************************************************************************)
\* C28: a nested form consumes its own closing parenthesis only: in
\* (+ (* 2 (set x 5)) 7) the product has the arguments 2 and x, and 7 is
\* the second argument of the sum, which is 17.
C28_NestedSetClosesItself ==
    (input \in NestSources /\ lastOp = "eval" /\ pre.lastOp = "setSource")
        => /\ root # NULL
           /\ Len(heap[root].args) = 2
           /\ Len(heap[heap[root].args[1]].args) = 2
           /\ result = [status |-> "value", v |-> MkInt(17)]

(***************************************************************************)
(* References from the compiled tree into the tables.                      *)
(***************************************************************************)
\* no node reached from the root or from the sub-expression pool of parser
\* p is destroyed, and none has a destroyed function
NoneDestroyed(p) ==
    \A a \in Tree(p.h, ({p.root} \cup {p.subs[i] : i \in DOMAIN p.subs}) \ {NULL},
                  {}) :
        /\ p.h[a].alive
        /\ p.h[a].fcn # NULL => p.h[p.h[a].fcn].alive

\* C29: with a compiled root, addFunction (also for a registered name),
\* removeFunction, removeVariable and eval leave the root and the pooled
\* sub-expressions without a reference to a destroyed function or variable.
C29_NoDestroyedReference ==
    (/\ lastOp \in {"addFunction", "removeFunction", "removeVariable", "eval"}
     /\ pre.p.root # NULL
     /\ NoneDestroyed(pre.p))
        => NoneDestroyed(Cur)

(***************************************************************************)
(* addVariable during an evaluation.                                       *)
(***************************************************************************)
\* C30: while the evaluating thread is in the bound expression of a
\* variable, addVariable for that variable by another thread does not
\* destroy the expression: the variable's lock orders the two.
C30_ExpressionOutlivesEvaluation ==
    threads.inExpr => threads.exprAlive

============================================================================
